---- MODULE Spec2Model ----
(***************************************************************************)
(* Model of the generic admin REST layer (SnapJS-AdminServer).             *)
(*                                                                         *)
(* One HTTP request travels through an express route: the authorization    *)
(* middleware, the attachClass guard, then one controller operation.  The  *)
(* controller operations talk to the document store through promises and   *)
(* callbacks; every callback is a separate step, so that the store's       *)
(* completions interleave in every order.                                  *)
(*                                                                         *)
(* `responses` records every res.status(..).end/json/send call of the      *)
(* request in the order the code makes them; `nextErrors` records every    *)
(* error handed to next(err).                                              *)
(***************************************************************************)
EXTENDS Integers, Sequences, FiniteSets, TLC

\* ------------------------------------------------------------------ bounds

\* CSV data rows of an import (the header row not counted).
MaxRows == 2
\* Document identifiers the requests may name.
MaxIds == 2
\* CSV data rows of the import of many plain rows (SpecManyRows).
MaxFinRows == 6
\* filters in one list request
MaxFilters == 2

\* ------------------------------------------------------------- identifiers

IdStr == <<"id1", "id2", "id3", "id4">>
Ids == { IdStr[i] : i \in 1..MaxIds }

\* Identifiers the store gives to the documents it creates.
NewIdStr == [k \in 1..(2 * MaxRows + MaxFinRows + 1) |-> "new" \o ToString(k)]

\* ------------------------------------------------------ controller constants

blacklistRequestAttributes ==
    <<"_id", "salt", "resetPasswordExpires", "resetPasswordToken",
      "updatedAt", "createdAt", "__v">>

blacklistResponseAttributes ==
    <<"_id", "password", "salt", "resetPasswordExpires",
      "resetPasswordToken", "__v">>

Range(s) == { s[i] : i \in 1..Len(s) }

\* ------------------------------------------------------------ the host app

\* The models registered with mongoose (mongoose.modelNames()).
ModelNames == {"User"}

\* Object.keys(req.class.schema.paths) of the registered model, in order.
SchemaHeaders ==
    <<"name", "tags", "age", "owner", "editor", "password", "salt", "_id",
      "updatedAt", "createdAt", "__v">>

\* The class names a request may carry in :className.
ClassNames == {"User", "Ghost"}

\* --------------------------------------------------------------- the state

VARIABLES
    pc,             \* where the request is: "idle", "chain", a wait, "done"
    route,          \* index of the matched route in Routes (0: none yet)
    className,      \* req.params.className
    chainPos,       \* position in the matched route's handler stack
    granted,        \* auth.hasRole('admin') has called next() for the request
    reqClass,       \* req.class ("none" until attachClass sets it)
    invoked,        \* the controller operation invoked ("none" until then)
    responses,      \* every res...end/json/send call, in order
    nextErrors,     \* every error handed to next(err), in order
    store,          \* the collection of the model: _id -> document
    nCreated,       \* documents the store has created so far
    responseArray,  \* importFromCsv: the decoded CSV (row 1 = header row)
    rowObj,         \* importFromCsv: the object built for each data row
    rowState,       \* importFromCsv: where createWithRow is for each data row
    finishedRows,   \* importFromCsv: finishedRows
    erroredRows,    \* importFromCsv: erroredRows (row index -> error)
    promiseArray,   \* destroyMultiple: the removals issued, in results order
    eachIdx,        \* destroyMultiple: the promise Promise.each waits for
    adminFunctions, \* typeof req.class.populateForAdminFunctions === 'function'
    reqId,          \* req.params.id
    reqBody,        \* req.body (create, update), req.body.ids (deleteMultiple)
    shouldExport,   \* index: req.query.export
    itemCount,      \* index: the count the count query returned
    entity,         \* the value travelling down the controller's promise chain
    searchFilters,  \* index: req.query.filters
    queryOptions,   \* index: the split field of every relationship filter
    relationshipPromises,   \* index: the sub-queries on the related collection
    nonRelationshipFilters, \* index: the filters handed to buildQuery
    searchQuery,    \* index: the query built for the count and the fetch
    storeQueries,   \* index: the queries sent to the model's collection, in order
    adminPromises,  \* index: promiseArray, the enrichment calls in push order
    adminIdx,       \* index: enrichment promises Promise.each has gone through
    csvTable,       \* codec: the header list and the rows handed to convertToCsv
    csvString,      \* codec: the text convertToCsv returned
    arrData,        \* codec: what csvToArray made of the text
    peer            \* a second import in progress: its own state while it waits

importVars == <<responseArray, rowObj, rowState, finishedRows, erroredRows>>
chainVars == <<route, className, chainPos, granted, reqClass, invoked>>
bulkVars == <<promiseArray, eachIdx>>
reqVars == <<reqId, reqBody, shouldExport, itemCount, entity>>
extraVars == <<csvTable, csvString, arrData, peer>>
filterVars == <<searchFilters, queryOptions, relationshipPromises,
                nonRelationshipFilters, searchQuery, storeQueries,
                adminPromises, adminIdx, extraVars>>
vars == <<pc, chainVars, responses, nextErrors, store, nCreated, importVars,
          bulkVars, adminFunctions, reqVars, filterVars>>

\* ------------------------------------------------------------- responses

\* null / undefined
Null == [null |-> TRUE]

EndResponse(status) == [status |-> status, kind |-> "end", body |-> "" ]
ErrorResponse(status, message) ==
    [status |-> status, kind |-> "errors",
     body |-> [errors |-> [error |-> [message |-> message]]]]

\* ------------------------------------------------------------ the routes

\* The routes with the import route registered without its authorization
\* middleware.
RoutesImportUngated ==
    << [method |-> "GET",    path |-> "/:className/schema",
        stack |-> <<"hasRole", "attachClass", "getSchema">>],
       [method |-> "POST",   path |-> "/:className/deleteMultiple",
        stack |-> <<"hasRole", "attachClass", "destroyMultiple">>],
       [method |-> "POST",   path |-> "/:className/importFromCsv",
        stack |-> <<"attachClass", "importFromCsv">>],
       [method |-> "GET",    path |-> "/:className/",
        stack |-> <<"hasRole", "attachClass", "index">>],
       [method |-> "GET",    path |-> "/:className/:id",
        stack |-> <<"hasRole", "attachClass", "show">>],
       [method |-> "POST",   path |-> "/:className/",
        stack |-> <<"hasRole", "attachClass", "create">>],
       [method |-> "PUT",    path |-> "/:className/:id",
        stack |-> <<"hasRole", "attachClass", "update">>],
       [method |-> "PATCH",  path |-> "/:className/:id",
        stack |-> <<"hasRole", "attachClass", "update">>],
       [method |-> "DELETE", path |-> "/:className/:id",
        stack |-> <<"hasRole", "attachClass", "destroy">>] >>

\* router.<method>(path, auth.hasRole('admin'), attachClass(), controller.<op>)
\* in the order setUser registers them.
Routes ==
    << [method |-> "GET",    path |-> "/:className/schema",
        stack |-> <<"hasRole", "attachClass", "getSchema">>],
       [method |-> "POST",   path |-> "/:className/deleteMultiple",
        stack |-> <<"hasRole", "attachClass", "destroyMultiple">>],
       [method |-> "POST",   path |-> "/:className/importFromCsv",
        stack |-> <<"hasRole", "attachClass", "importFromCsv">>],
       [method |-> "GET",    path |-> "/:className/",
        stack |-> <<"hasRole", "attachClass", "index">>],
       [method |-> "GET",    path |-> "/:className/:id",
        stack |-> <<"hasRole", "attachClass", "show">>],
       [method |-> "POST",   path |-> "/:className/",
        stack |-> <<"hasRole", "attachClass", "create">>],
       [method |-> "PUT",    path |-> "/:className/:id",
        stack |-> <<"hasRole", "attachClass", "update">>],
       [method |-> "PATCH",  path |-> "/:className/:id",
        stack |-> <<"hasRole", "attachClass", "update">>],
       [method |-> "DELETE", path |-> "/:className/:id",
        stack |-> <<"hasRole", "attachClass", "destroy">>] >>

\* The handler express runs next for the request.
Handler ==
    IF pc = "chain" /\ route \in 1..Len(Routes)
          /\ chainPos \in 1..Len(Routes[route].stack)
    THEN Routes[route].stack[chainPos]
    ELSE "none"

\* mongoose.model(name): the registered model, or a MissingSchemaError thrown.
MongooseModel(name) ==
    IF name \in ModelNames
    THEN [ok |-> TRUE, model |-> name]
    ELSE [ok |-> FALSE, model |-> "MissingSchemaError"]

\* ------------------------------------------------------------ CSV import

NumErrorsToDisplay == 5

NoErrors == [r \in {} |-> ""]

\* The cells a CSV file holds under each header.
ColumnCells(h) ==
    CASE h = "_id"   -> Ids \cup {""}
      [] h = "name"  -> {"a", ""}
      [] h = "tags"  -> {"[1,2]", "[1,]"}
      [] h = "bogus" -> {"x"}
      [] h = "salt"  -> {"s"}
      [] OTHER       -> {""}

HeaderRows == { <<"_id", "tags">>, <<"name", "bogus">>, <<"salt", "tags">> }

AllCells == UNION { ColumnCells(h) : h \in {"_id", "name", "tags", "bogus", "salt"} }

\* The header row under which the file has lines with fewer cells than headers.
ShortRowHeaders == { <<"salt", "tags">> }

\* The data rows under a header row: full rows, and under ShortRowHeaders
\* also rows whose last cell is missing.
RowsFor(h) ==
    UNION { { r \in [1..n -> AllCells] : \A j \in 1..n : r[j] \in ColumnCells(h[j]) }
            : n \in (IF h \in ShortRowHeaders THEN {Len(h) - 1, Len(h)} ELSE {Len(h)}) }

\* The arrays csvToArray hands to the import: a header row and 0..MaxRows data rows.
CsvArrays ==
    UNION { UNION { { <<h>> \o rows : rows \in [1..n -> RowsFor(h)] }
                    : n \in 0..MaxRows }
            : h \in HeaderRows }

\* element.substr(0, 1) === '[' && element.substr(-1, 1) === ']', or the same with {}
IsDelimited(element) == element \in {"[1,2]", "[1,]"}

\* JSON.parse(element) returns (TRUE) or throws (FALSE)
JsonParses(element) == element \in {"[1,2]"}

\* The structured value JSON.parse returns, as a value distinct from the text.
JsonParse(element) == "json:" \o element

\* The headers of csvHeaders that are not schema properties, in the order the
\* check meets them (i from csvHeaders.length - 1 down to 0).
RECURSIVE UnknownHeaders(_, _)
UnknownHeaders(csvHeaders, i) ==
    IF i = 0 THEN <<>>
    ELSE (IF csvHeaders[i] \notin Range(SchemaHeaders) THEN <<csvHeaders[i]>> ELSE <<>>)
         \o UnknownHeaders(csvHeaders, i - 1)

HeaderErrorResponses(csvHeaders) ==
    LET bad == UnknownHeaders(csvHeaders, Len(csvHeaders))
    IN  [k \in 1..Len(bad) |->
            ErrorResponse(503, <<"The header does not match any properties in the schema", bad[k]>>)]

\* responseArray[i][j]: undefined past the end of a short row.
Undefined == "undefined"
CellAt(row, j) == IF j <= Len(row) THEN row[j] ELSE Undefined

\* Every header is written to the row object.
SkippedHeaderNone(h) == FALSE

\* The header is skipped when the row object is built.
SkippedHeader(h) == h # "_id" /\ h \in Range(blacklistRequestAttributes)

\* The value stored under a header for one cell.
Element(cell) ==
    LET element == IF cell \in {Undefined, ""} THEN "" ELSE cell
    IN  IF IsDelimited(element) /\ JsonParses(element)
        THEN JsonParse(element)
        ELSE element

\* The cell's JSON.parse throws: the catch block answers the request.
ParseFails(cell) ==
    LET element == IF cell \in {Undefined, ""} THEN "" ELSE cell
    IN  IsDelimited(element) /\ ~JsonParses(element)

\* The object the inner loop builds for one data row.
BuildObject(csvHeaders, row) ==
    LET kept == { j \in 1..Len(csvHeaders) : ~SkippedHeader(csvHeaders[j]) }
        last(k) == CHOOSE j \in kept :
                      /\ csvHeaders[j] = k
                      /\ \A j2 \in kept : csvHeaders[j2] = k => j2 <= j
    IN  [k \in { csvHeaders[j] : j \in kept } |-> Element(CellAt(row, last(k)))]

\* The 'Error parsing array' responses of one data row, one per failing cell.
RECURSIVE RowParseErrors(_, _, _)
RowParseErrors(csvHeaders, row, j) ==
    IF j > Len(csvHeaders) THEN <<>>
    ELSE (IF ~SkippedHeader(csvHeaders[j]) /\ ParseFails(CellAt(row, j))
          THEN <<ErrorResponse(503, <<"Error parsing array">>)>>
          ELSE <<>>)
         \o RowParseErrors(csvHeaders, row, j + 1)

RECURSIVE ParseErrorResponses(_, _)
ParseErrorResponses(arr, i) ==
    IF i > Len(arr) THEN <<>>
    ELSE RowParseErrors(arr[1], arr[i], 1) \o ParseErrorResponses(arr, i + 1)

\* The first numErrorsToDisplay keys of erroredRows in for-in order
\* (integer keys are visited in ascending order).
DisplayedRows(errored) ==
    { k \in DOMAIN errored :
        Cardinality({ k2 \in DOMAIN errored : k2 < k }) < NumErrorsToDisplay }

\* returnIfFinished with the summary entry added from numExtraErrors >= 0 on.
ReturnIfFinishedExcessOffByOne(finished, arr, errored) ==
    IF finished = Len(arr) - 1
    THEN LET numErrors == Cardinality(DOMAIN errored)
             numExtraErrors == numErrors - NumErrorsToDisplay
             keys == { "error" \o ToString(k) : k \in DisplayedRows(errored) }
                       \cup (IF numExtraErrors >= 0 THEN {"excess"} ELSE {})
             rowOf(key) == CHOOSE k \in DisplayedRows(errored) : key = "error" \o ToString(k)
             errors == [key \in keys |->
                          IF key = "excess"
                          THEN [message |-> <<"And more errors", numExtraErrors>>]
                          ELSE [message |-> <<"Unable to add row with error",
                                              rowOf(key), errored[rowOf(key)]>>]]
         IN  IF numErrors = 0
             THEN << EndResponse(204) >>
             ELSE << [status |-> 400, kind |-> "errors", body |-> [errors |-> errors]] >>
    ELSE <<>>

\* returnIfFinished: the responses it sends (none, or one).
ReturnIfFinished(finished, arr, errored) ==
    IF finished = Len(arr) - 1
    THEN LET numErrors == Cardinality(DOMAIN errored)
             numExtraErrors == numErrors - NumErrorsToDisplay
             keys == { "error" \o ToString(k) : k \in DisplayedRows(errored) }
                       \cup (IF numExtraErrors > 0 THEN {"excess"} ELSE {})
             rowOf(key) == CHOOSE k \in DisplayedRows(errored) : key = "error" \o ToString(k)
             errors == [key \in keys |->
                          IF key = "excess"
                          THEN [message |-> <<"And more errors", numExtraErrors>>]
                          ELSE [message |-> <<"Unable to add row with error",
                                              rowOf(key), errored[rowOf(key)]>>]]
         IN  IF numErrors = 0
             THEN << EndResponse(204) >>
             ELSE << [status |-> 400, kind |-> "errors", body |-> [errors |-> errors]] >>
    ELSE <<>>

\* ---------------------------------------------------------------- the store

\* A document the collection holds before the request.
InitDoc(id) ==
    [_id |-> id, name |-> "n", tags |-> "json:[]",
     age |-> (CASE id = "id1" -> 30 [] id = "id2" -> 21 [] id = "id3" -> 20 [] OTHER -> 22),
     owner |-> (CASE id = "id1" -> "o1" [] id = "id2" -> "o2" [] id = "id3" -> "o3" [] OTHER -> "o1"),
     editor |-> (CASE id = "id1" -> "o3" [] id = "id2" -> "o1" [] id = "id3" -> "o3" [] OTHER -> "o2"),
     password |-> "hash", salt |-> "salt", __v |-> "0"]

InitStores == { [id \in S |-> InitDoc(id)] : S \in SUBSET Ids }

\* Model.create(object): the document the store inserts.
CreateDoc(object, newId) ==
    [k \in ((DOMAIN object) \cap Range(SchemaHeaders)) \cup {"_id", "__v"} |->
        IF k \in DOMAIN object THEN object[k]
        ELSE IF k = "_id" THEN newId ELSE "0"]

\* Model.findByIdAndUpdate(id, object): the document after the update.
UpdateDoc(doc, object) ==
    [k \in (DOMAIN doc) \cup ((DOMAIN object) \cap Range(SchemaHeaders)) |->
        IF k \in DOMAIN object THEN object[k] ELSE doc[k]]

Put(st, id, doc) == [i \in (DOMAIN st) \cup {id} |-> IF i = id THEN doc ELSE st[i]]

\* --------------------------------------------------------------------- Init

Init ==
    /\ pc = "idle"
    /\ route = 0
    /\ className = "none"
    /\ chainPos = 0
    /\ granted = FALSE
    /\ reqClass = "none"
    /\ invoked = "none"
    /\ responses = <<>>
    /\ nextErrors = <<>>
    /\ store \in InitStores
    /\ nCreated = 0
    /\ responseArray = <<>>
    /\ rowObj = <<>>
    /\ rowState = <<>>
    /\ finishedRows = 0
    /\ erroredRows = NoErrors
    /\ promiseArray = <<>>
    /\ eachIdx = 0
    /\ adminFunctions = FALSE
    /\ reqId = "none"
    /\ reqBody = Null
    /\ shouldExport = FALSE
    /\ itemCount = 0
    /\ entity = Null
    /\ searchFilters = <<>>
    /\ queryOptions = <<>>
    /\ relationshipPromises = <<>>
    /\ nonRelationshipFilters = <<>>
    /\ searchQuery = Null
    /\ storeQueries = <<>>
    /\ adminPromises = <<>>
    /\ adminIdx = 0
    /\ csvTable = Null
    /\ csvString = <<>>
    /\ arrData = Null
    /\ peer = Null

\* ------------------------------------------------------------------ routing

\* express matches the request to a route and starts its handler stack.
Receive ==
    /\ pc = "idle"
    /\ \E r \in 1..Len(Routes), c \in ClassNames :
          /\ route' = r
          /\ className' = c
    /\ chainPos' = 1
    /\ pc' = "chain"
    /\ UNCHANGED <<granted, reqClass, invoked, responses, nextErrors, store,
                   nCreated, importVars,
                   bulkVars, adminFunctions, reqVars>>
    /\ UNCHANGED filterVars

\* auth.hasRole('admin') grants the request: it calls next().
HasRoleGrant ==
    /\ Handler = "hasRole"
    /\ granted' = TRUE
    /\ chainPos' = chainPos + 1
    /\ UNCHANGED <<pc, route, className, reqClass, invoked, responses,
                   nextErrors, store, nCreated, importVars,
                   bulkVars, adminFunctions, reqVars>>
    /\ UNCHANGED filterVars

\* auth.hasRole('admin') refuses the request: it answers and does not call next().
HasRoleDeny ==
    /\ Handler = "hasRole"
    /\ responses' = Append(responses, EndResponse(403))
    /\ pc' = "done"
    /\ UNCHANGED <<chainVars, nextErrors, store, nCreated, importVars,
                   bulkVars, adminFunctions, reqVars>>
    /\ UNCHANGED filterVars

\* attachClass going on to next() after its 404, as it would if the model
\* lookup did not throw.
AttachClassGoesOn ==
    /\ Handler = "attachClass"
    /\ responses' = IF className \notin ModelNames
                    THEN Append(responses,
                                ErrorResponse(404, <<"Could not find class: ", className>>))
                    ELSE responses
    /\ reqClass' = className
    /\ chainPos' = chainPos + 1
    /\ UNCHANGED <<pc, nextErrors, route, className, granted, invoked, store,
                   nCreated, importVars, bulkVars, adminFunctions, reqVars>>
    /\ UNCHANGED filterVars

\* The attachClass middleware.  For a name that is no registered model it
\* answers 404 and goes on to mongoose.model(name), which throws: express
\* hands the error to next(err) and the stack stops there.
AttachClass ==
    /\ Handler = "attachClass"
    /\ LET missing == className \notin ModelNames
           answered == IF missing
                       THEN Append(responses,
                                   ErrorResponse(404, <<"Could not find class: ", className>>))
                       ELSE responses
           model == MongooseModel(className)
       IN  /\ responses' = answered
           /\ IF model.ok
              THEN /\ reqClass' = model.model
                   /\ chainPos' = chainPos + 1
                   /\ UNCHANGED <<pc, nextErrors>>
              ELSE /\ nextErrors' = Append(nextErrors, model.model)
                   /\ pc' = "done"
                   /\ UNCHANGED <<reqClass, chainPos>>
    /\ UNCHANGED <<route, className, granted, invoked, store, nCreated, importVars,
                   bulkVars, adminFunctions, reqVars>>
    /\ UNCHANGED filterVars

\* ------------------------------------------------------------- importFromCsv

\* importFromCsv: awsHelper.getFile(url) is called and the request waits for it.
ImportFromCsv ==
    /\ Handler = "importFromCsv"
    /\ invoked' = "importFromCsv"
    /\ pc' = "getFile"
    /\ UNCHANGED <<route, className, chainPos, granted, reqClass, responses,
                   nextErrors, store, nCreated, importVars,
                   bulkVars, adminFunctions, reqVars>>
    /\ UNCHANGED filterVars

\* The file fetch fails: the rejection handler answers 400.
GetFileRejected ==
    /\ pc = "getFile"
    /\ responses' = Append(responses,
                           ErrorResponse(400, <<"An unknown error occured. Please try again.">>))
    /\ pc' = "done"
    /\ UNCHANGED <<chainVars, nextErrors, store, nCreated, importVars,
                   bulkVars, adminFunctions, reqVars>>
    /\ UNCHANGED filterVars

\* The file fetch succeeds: the header check, then for every data row the
\* object is built and createWithRow starts its findById.
GetFileResolved ==
    /\ pc = "getFile"
    /\ \E arr \in CsvArrays :
          LET csvHeaders == arr[1]
              n == Len(arr) - 1
          IN  /\ responseArray' = arr
              /\ responses' = responses \o HeaderErrorResponses(csvHeaders)
                                        \o ParseErrorResponses(arr, 2)
              /\ rowObj' = [i \in 1..n |-> BuildObject(csvHeaders, arr[i + 1])]
              /\ rowState' = [i \in 1..n |-> "findById"]
    /\ finishedRows' = 0
    /\ erroredRows' = NoErrors
    /\ pc' = "rows"
    /\ UNCHANGED <<chainVars, nextErrors, store, nCreated, bulkVars, adminFunctions, reqVars>>
    /\ UNCHANGED filterVars

\* The findById callback creating from the object as it is, _id included.
FindByIdCallbackKeepsId(row) ==
    LET object == rowObj[row]
        found == "_id" \in DOMAIN object /\ object._id \in DOMAIN store
    IN  /\ rowState' = [rowState EXCEPT
                          ![row] = IF found THEN "findByIdAndUpdate" ELSE "create"]
        /\ UNCHANGED rowObj

\* createWithRow, the findById callback of one row: an update when the
\* document was found, else _id is deleted from the object and a create.
FindByIdCallback(row) ==
    LET object == rowObj[row]
        found == "_id" \in DOMAIN object /\ object._id \in DOMAIN store
    IN  IF found
        THEN /\ rowState' = [rowState EXCEPT ![row] = "findByIdAndUpdate"]
             /\ UNCHANGED rowObj
        ELSE /\ rowState' = [rowState EXCEPT ![row] = "create"]
             /\ rowObj' = [rowObj EXCEPT
                             ![row] = [k \in (DOMAIN object) \ {"_id"} |-> object[k]]]

CreateWithRow ==
    /\ pc = "rows"
    /\ \E row \in DOMAIN rowState :
          /\ rowState[row] = "findById"
          /\ FindByIdCallback(row)
    /\ UNCHANGED <<pc, chainVars, responses, nextErrors, store, nCreated,
                   responseArray, finishedRows, erroredRows,
                   bulkVars, adminFunctions, reqVars>>
    /\ UNCHANGED filterVars

\* The success callback, followed by the error callback for the same row.
SuccessCallbackThenErrorCallback(row) ==
    LET errored == [k \in (DOMAIN erroredRows) \cup {row} |->
                       IF k = row THEN "Error" ELSE erroredRows[k]]
    IN  /\ finishedRows' = finishedRows + 2
        /\ erroredRows' = errored
        /\ responses' = responses
                \o ReturnIfFinished(finishedRows + 1, responseArray, erroredRows)
                \o ReturnIfFinished(finishedRows + 2, responseArray, errored)

\* The success callback importFromCsv passes to createWithRow.
SuccessCallback(row) ==
    /\ finishedRows' = finishedRows + 1
    /\ erroredRows' = erroredRows
    /\ responses' = responses \o ReturnIfFinished(finishedRows + 1, responseArray, erroredRows)

\* The error callback recording the error under the count of finished rows
\* instead of the row it is called for.
ErrorCallbackKeyedByCount(error, row) ==
    LET key == finishedRows + 1
        errored == [k \in (DOMAIN erroredRows) \cup {key} |->
                       IF k = key THEN error ELSE erroredRows[k]]
    IN  /\ finishedRows' = finishedRows + 1
        /\ erroredRows' = errored
        /\ responses' = responses \o ReturnIfFinished(finishedRows + 1, responseArray, errored)

\* The error callback importFromCsv passes to createWithRow.
ErrorCallback(error, row) ==
    LET errored == [k \in (DOMAIN erroredRows) \cup {row} |->
                       IF k = row THEN error ELSE erroredRows[k]]
    IN  /\ finishedRows' = finishedRows + 1
        /\ erroredRows' = errored
        /\ responses' = responses \o ReturnIfFinished(finishedRows + 1, responseArray, errored)

\* The store resolves a row's findByIdAndUpdate or create.
RowResolved ==
    /\ pc = "rows"
    /\ \E row \in DOMAIN rowState :
          /\ rowState[row] \in {"findByIdAndUpdate", "create"}
          /\ IF rowState[row] = "findByIdAndUpdate"
             THEN /\ store' = IF rowObj[row]._id \in DOMAIN store
                              THEN Put(store, rowObj[row]._id,
                                       UpdateDoc(store[rowObj[row]._id], rowObj[row]))
                              ELSE store
                  /\ nCreated' = nCreated
                  /\ rowState' = [rowState EXCEPT ![row] = "updated"]
             ELSE /\ LET doc == CreateDoc(rowObj[row], NewIdStr[nCreated + 1])
                     IN  store' = Put(store, doc._id, doc)
                  /\ nCreated' = nCreated + 1
                  /\ rowState' = [rowState EXCEPT ![row] = "created"]
          /\ SuccessCallback(row)
    /\ UNCHANGED <<pc, chainVars, nextErrors, responseArray, rowObj,
                   bulkVars, adminFunctions, reqVars>>
    /\ UNCHANGED filterVars

\* The store rejects a row's findByIdAndUpdate or create (a validation error).
RowRejected ==
    /\ pc = "rows"
    /\ \E row \in DOMAIN rowState :
          /\ rowState[row] \in {"findByIdAndUpdate", "create"}
          /\ rowState' = [rowState EXCEPT ![row] = "rejected"]
          /\ ErrorCallback("ValidationError", row)
    /\ UNCHANGED <<pc, chainVars, nextErrors, store, nCreated, responseArray, rowObj,
                   bulkVars, adminFunctions, reqVars>>
    /\ UNCHANGED filterVars

\* ----------------------------------------------------------- response shaping

\* delete entity[k] for every k of keys
DeleteKeys(object, keys) == [k \in (DOMAIN object) \ keys |-> object[k]]

\* utils.respondWithResult(res, blacklistAttributes)(entity): the responses it
\* sends.  An entity that is not an array loses its own blacklisted
\* properties other than _id; nothing is sent for a falsy entity.
RespondWithResult(blacklistAttributes, ent, isArray) ==
    IF ent = Null THEN <<>>
    ELSE LET stripped ==
                 IF isArray THEN ent
                 ELSE DeleteKeys(ent, Range(blacklistAttributes) \ {"_id"})
         IN  << [status |-> 200, kind |-> "json", body |-> stripped] >>

\* utils.handleEntityNotFound(res)(entity): the responses it sends.
HandleEntityNotFound(ent) ==
    IF ent = Null THEN << EndResponse(404) >> ELSE <<>>

\* utils.cleanRequest(req, blacklistAttributes): req.body without the
\* forbidden request fields.
CleanRequest(body, blacklistAttributes) == DeleteKeys(body, Range(blacklistAttributes))

\* req.class.populateForAdminFunctions(): the enriched fields and their functions.
AdminFunctionKeys == <<"name", "owner">>
AdminFunction(key, value) == key \o "(" \o value \o ")"

Get(object, key) == IF key \in DOMAIN object THEN object[key] ELSE "undefined"

\* The document with every enrichment function applied to its field.
Enriched(doc) ==
    [k \in (DOMAIN doc) \cup Range(AdminFunctionKeys) |->
        IF k \in Range(AdminFunctionKeys) THEN AdminFunction(k, Get(doc, k)) ELSE doc[k]]

\* findOne / findById
FindOne(id) == IF id \in DOMAIN store THEN store[id] ELSE Null

\* The request bodies of create and update.
Bodies ==
    { [name |-> "b"],
      [name |-> "b", password |-> "pw"],
      [_id |-> "id1", name |-> "b", salt |-> "x"] }

\* ------------------------------------------------------------------ getSchema

GetSchema ==
    /\ Handler = "getSchema"
    /\ invoked' = "getSchema"
    /\ responses' = Append(responses,
                           [status |-> 200, kind |-> "schema", body |-> SchemaHeaders])
    /\ pc' = "done"
    /\ UNCHANGED <<route, className, chainPos, granted, reqClass, nextErrors,
                   store, nCreated, importVars, bulkVars, adminFunctions, reqVars>>
    /\ UNCHANGED filterVars

\* ----------------------------------------------------------------------- show

Show ==
    /\ Handler = "show"
    /\ invoked' = "show"
    /\ \E id \in Ids : reqId' = id
    /\ \E f \in BOOLEAN : adminFunctions' = f
    /\ pc' = "showFindOne"
    /\ UNCHANGED <<route, className, chainPos, granted, reqClass, responses,
                   nextErrors, store, nCreated, importVars, bulkVars,
                   reqBody, shouldExport, itemCount, entity>>
    /\ UNCHANGED filterVars

\* findOne settles: handleEntityNotFound, the enrichment block, and (without
\* enrichment functions) respondWithResult.
ShowFindOneResolved ==
    /\ pc = "showFindOne"
    /\ LET result == FindOne(reqId)
       IN  /\ IF adminFunctions
              THEN IF result = Null
                   THEN \* value(result[key]) throws on the undefined result
                        /\ responses' = responses \o HandleEntityNotFound(result)
                        /\ nextErrors' = Append(nextErrors, "TypeError")
                        /\ pc' = "done"
                        /\ entity' = entity
                   ELSE /\ responses' = responses
                        /\ nextErrors' = nextErrors
                        /\ pc' = "showEach"
                        /\ entity' = result
              ELSE /\ responses' = responses \o HandleEntityNotFound(result)
                                   \o RespondWithResult(blacklistResponseAttributes, result, FALSE)
                   /\ nextErrors' = nextErrors
                   /\ pc' = "done"
                   /\ entity' = result
    /\ UNCHANGED <<chainVars, store, nCreated, importVars, bulkVars,
                   adminFunctions, reqId, reqBody, shouldExport, itemCount>>
    /\ UNCHANGED filterVars

\* The enrichment promises settle: Promise.each writes them into the result,
\* and respondWithResult answers.
ShowEachResolved ==
    /\ pc = "showEach"
    /\ entity' = Enriched(entity)
    /\ responses' = responses
                    \o RespondWithResult(blacklistResponseAttributes, Enriched(entity), FALSE)
    /\ pc' = "done"
    /\ UNCHANGED <<chainVars, nextErrors, store, nCreated, importVars, bulkVars,
                   adminFunctions, reqId, reqBody, shouldExport, itemCount>>
    /\ UNCHANGED filterVars

\* --------------------------------------------------------------------- create

Create ==
    /\ Handler = "create"
    /\ invoked' = "create"
    /\ \E b \in Bodies : reqBody' = b
    /\ pc' = "createWait"
    /\ UNCHANGED <<route, className, chainPos, granted, reqClass, responses,
                   nextErrors, store, nCreated, importVars, bulkVars,
                   adminFunctions, reqId, shouldExport, itemCount, entity>>
    /\ UNCHANGED filterVars

CreateResolved ==
    /\ pc = "createWait"
    /\ "_id" \in DOMAIN reqBody => reqBody._id \notin DOMAIN store
    /\ LET newId == NewIdStr[nCreated + 1]
           doc == CreateDoc(reqBody, newId)
       IN  /\ store' = Put(store, doc._id, doc)
           /\ entity' = doc
           /\ responses' = responses
                           \o RespondWithResult(blacklistResponseAttributes, doc, FALSE)
    /\ nCreated' = nCreated + 1
    /\ pc' = "done"
    /\ UNCHANGED <<chainVars, nextErrors, importVars, bulkVars, adminFunctions,
                   reqId, reqBody, shouldExport, itemCount>>
    /\ UNCHANGED filterVars

CreateRejected ==
    /\ pc = "createWait"
    /\ nextErrors' = Append(nextErrors, "ValidationError")
    /\ pc' = "done"
    /\ UNCHANGED <<chainVars, responses, store, nCreated, importVars, bulkVars,
                   adminFunctions, reqVars>>
    /\ UNCHANGED filterVars

\* --------------------------------------------------------------------- update

Update ==
    /\ Handler = "update"
    /\ invoked' = "update"
    /\ \E id \in Ids, b \in Bodies :
          /\ reqId' = id
          /\ reqBody' = b
    /\ pc' = "updateFindOne"
    /\ UNCHANGED <<route, className, chainPos, granted, reqClass, responses,
                   nextErrors, store, nCreated, importVars, bulkVars,
                   adminFunctions, shouldExport, itemCount, entity>>
    /\ UNCHANGED filterVars

\* findOne settles: handleEntityNotFound, cleanRequest, then the body is
\* assigned onto the result and saved.  _.assign(undefined, body) gives a
\* plain object, whose save is no function.
UpdateFindOneResolved ==
    /\ pc = "updateFindOne"
    /\ LET result == FindOne(reqId)
           body == DeleteKeys(CleanRequest(reqBody, blacklistRequestAttributes), {"_id"})
       IN  /\ responses' = responses \o HandleEntityNotFound(result)
           /\ reqBody' = body
           /\ IF result = Null
              THEN /\ nextErrors' = Append(nextErrors, "TypeError")
                   /\ pc' = "done"
                   /\ entity' = entity
              ELSE /\ nextErrors' = nextErrors
                   /\ pc' = "updateSave"
                   /\ entity' = UpdateDoc(result, body)
    /\ UNCHANGED <<chainVars, store, nCreated, importVars, bulkVars,
                   adminFunctions, reqId, shouldExport, itemCount>>
    /\ UNCHANGED filterVars

UpdateSaveResolved ==
    /\ pc = "updateSave"
    /\ store' = Put(store, entity._id, entity)
    /\ responses' = responses
                    \o RespondWithResult(blacklistResponseAttributes, entity, FALSE)
    /\ pc' = "done"
    /\ UNCHANGED <<chainVars, nextErrors, nCreated, importVars, bulkVars,
                   adminFunctions, reqVars>>
    /\ UNCHANGED filterVars

UpdateSaveRejected ==
    /\ pc = "updateSave"
    /\ nextErrors' = Append(nextErrors, "ValidationError")
    /\ pc' = "done"
    /\ UNCHANGED <<chainVars, responses, store, nCreated, importVars, bulkVars,
                   adminFunctions, reqVars>>
    /\ UNCHANGED filterVars

\* -------------------------------------------------------------------- destroy

Destroy ==
    /\ Handler = "destroy"
    /\ invoked' = "destroy"
    /\ \E id \in Ids : reqId' = id
    /\ pc' = "destroyFindById"
    /\ UNCHANGED <<route, className, chainPos, granted, reqClass, responses,
                   nextErrors, store, nCreated, importVars, bulkVars,
                   adminFunctions, reqBody, shouldExport, itemCount, entity>>
    /\ UNCHANGED filterVars

\* findById settles and remove is called whether or not there is a result.
DestroyFindByIdResolvedRemovesAnyway ==
    /\ pc = "destroyFindById"
    /\ LET result == FindOne(reqId)
       IN  /\ responses' = responses \o HandleEntityNotFound(result)
           /\ entity' = result
           /\ pc' = "destroyRemove"
    /\ UNCHANGED <<chainVars, nextErrors, store, nCreated, importVars, bulkVars,
                   adminFunctions, reqId, reqBody, shouldExport, itemCount>>
    /\ UNCHANGED filterVars

\* findById settles: handleEntityNotFound, then remove is called on a result.
DestroyFindByIdResolved ==
    /\ pc = "destroyFindById"
    /\ LET result == FindOne(reqId)
       IN  /\ responses' = responses \o HandleEntityNotFound(result)
           /\ entity' = result
           /\ pc' = IF result = Null THEN "done" ELSE "destroyRemove"
    /\ UNCHANGED <<chainVars, nextErrors, store, nCreated, importVars, bulkVars,
                   adminFunctions, reqId, reqBody, shouldExport, itemCount>>
    /\ UNCHANGED filterVars

\* The removal succeeds: the callback answers 204.
DestroyRemoveResolved ==
    /\ pc = "destroyRemove"
    /\ store' = [i \in (DOMAIN store) \ {reqId} |-> store[i]]
    /\ responses' = Append(responses, EndResponse(204))
    /\ pc' = "done"
    /\ UNCHANGED <<chainVars, nextErrors, nCreated, importVars, bulkVars,
                   adminFunctions, reqVars>>
    /\ UNCHANGED filterVars

\* The removal fails: the callback ignores its error argument and answers
\* 204; the rejected promise reaches handleError.
DestroyRemoveRejected ==
    /\ pc = "destroyRemove"
    /\ responses' = Append(responses, EndResponse(204))
    /\ nextErrors' = Append(nextErrors, "MongoError")
    /\ pc' = "done"
    /\ UNCHANGED <<chainVars, store, nCreated, importVars, bulkVars,
                   adminFunctions, reqVars>>
    /\ UNCHANGED filterVars

\* ------------------------------------------------------------ destroyMultiple

\* The sequences that list every element of a set once.
Orderings(S) ==
    { q \in [1..Cardinality(S) -> S] : \A i, j \in 1..Cardinality(S) : q[i] = q[j] => i = j }

\* destroyMultiple: find({ _id: { $in: req.body.ids } }) is issued.
DestroyMultiple ==
    /\ Handler = "destroyMultiple"
    /\ invoked' = "destroyMultiple"
    /\ \E ids \in SUBSET Ids : reqBody' = [ids |-> ids]
    /\ pc' = "destroyMultipleFind"
    /\ UNCHANGED <<route, className, chainPos, granted, reqClass, responses,
                   nextErrors, store, nCreated, importVars, bulkVars,
                   adminFunctions, reqId, shouldExport, itemCount, entity>>
    /\ UNCHANGED filterVars

\* find settles with the matching documents, in the store's order: remove()
\* is called on every one of them and Promise.each starts on the promises.
DestroyMultipleFindResolved ==
    /\ pc = "destroyMultipleFind"
    /\ \E results \in Orderings(reqBody.ids \cap DOMAIN store) :
          promiseArray' = [i \in 1..Len(results) |-> [id |-> results[i], state |-> "pending"]]
    /\ eachIdx' = 1
    /\ pc' = "destroyMultipleEach"
    /\ UNCHANGED <<chainVars, responses, nextErrors, store, nCreated, importVars,
                   adminFunctions, reqVars>>
    /\ UNCHANGED filterVars

DestroyMultipleFindRejected ==
    /\ pc = "destroyMultipleFind"
    /\ nextErrors' = Append(nextErrors, "MongoError")
    /\ pc' = "done"
    /\ UNCHANGED <<chainVars, responses, store, nCreated, importVars, bulkVars,
                   adminFunctions, reqVars>>
    /\ UNCHANGED filterVars

\* The store settles one of the removals, whatever Promise.each is waiting for.
RemoveResolved ==
    /\ \E i \in DOMAIN promiseArray :
          /\ promiseArray[i].state = "pending"
          /\ promiseArray' = [promiseArray EXCEPT ![i].state = "fulfilled"]
          /\ store' = [d \in (DOMAIN store) \ {promiseArray[i].id} |-> store[d]]
    /\ UNCHANGED <<pc, chainVars, responses, nextErrors, nCreated, importVars,
                   eachIdx, adminFunctions, reqVars>>
    /\ UNCHANGED filterVars

RemoveRejected ==
    /\ \E i \in DOMAIN promiseArray :
          /\ promiseArray[i].state = "pending"
          /\ promiseArray' = [promiseArray EXCEPT ![i].state = "rejected"]
    /\ UNCHANGED <<pc, chainVars, responses, nextErrors, store, nCreated,
                   importVars, eachIdx, adminFunctions, reqVars>>
    /\ UNCHANGED filterVars

\* Promise.each(promiseArray, iterator): the promise it waits for is
\* fulfilled, so the iterator runs for it (res.status(204).end()) and
\* Promise.each moves to the next promise.
PromiseEachFulfilled ==
    /\ pc = "destroyMultipleEach"
    /\ eachIdx <= Len(promiseArray)
    /\ promiseArray[eachIdx].state = "fulfilled"
    /\ responses' = Append(responses, EndResponse(204))
    /\ eachIdx' = eachIdx + 1
    /\ UNCHANGED <<pc, chainVars, nextErrors, store, nCreated, importVars,
                   promiseArray, adminFunctions, reqVars>>
    /\ UNCHANGED filterVars

\* A rejected promise rejects Promise.each and handleError hands the error to
\* next: when Promise.each reaches that promise or, depending on the promise
\* library's version, as soon as it is rejected.
PromiseEachRejected ==
    /\ pc = "destroyMultipleEach"
    /\ \E i \in eachIdx..Len(promiseArray) : promiseArray[i].state = "rejected"
    /\ nextErrors' = Append(nextErrors, "MongoError")
    /\ pc' = "done"
    /\ UNCHANGED <<chainVars, responses, store, nCreated, importVars, bulkVars,
                   adminFunctions, reqVars>>
    /\ UNCHANGED filterVars

\* Promise.each has gone through every promise: the chain ends, unanswered
\* unless an iterator call answered.
PromiseEachDone ==
    /\ pc = "destroyMultipleEach"
    /\ eachIdx > Len(promiseArray)
    /\ pc' = "done"
    /\ UNCHANGED <<chainVars, responses, nextErrors, store, nCreated, importVars,
                   bulkVars, adminFunctions, reqVars>>
    /\ UNCHANGED filterVars

\* ---------------------------------------------------------------------- index

DefaultLimit == 20

\* A filter of req.query.filters.
Filter(field, operator, value) == [field |-> field, operator |-> operator, value |-> value]

\* The operator strings the filter compiler knows besides 'like', 'true', 'false'.
PlainOperators ==
    {"equals", "not equal", "greater than", "less than",
     "greater than or equal to", "less than or equal to"}

\* The filters a list request may carry: every plain operator on a number
\* field, an operator string the compiler does not know, a fuzzy filter, a
\* date filter, and relationship filters on the two reference paths.
Filters ==
    { Filter("age", o, "21") : o \in PlainOperators }
    \cup { Filter("age", "greater-than", "21"),
           Filter("name", "like", "N"),
           Filter("createdAt", "greater than", "2020-01-02"),
           Filter("owner.name", "like", "jo"),
           Filter("editor.name", "equals", "Al"),
           Filter("owner.name", "not equal", "Jo") }

FilterLists == UNION { [1..n -> Filters] : n \in 0..MaxFilters }

Reverse(seq) == [k \in 1..Len(seq) |-> seq[Len(seq) + 1 - k]]

\* field.split('.')
Split(field) ==
    CASE field = "owner.name"  -> <<"owner", "name">>
      [] field = "editor.name" -> <<"editor", "name">>
      [] OTHER                 -> <<field>>

IsRelationship(filter) == Len(Split(filter.field)) > 1
IsPlain(filter) == ~IsRelationship(filter)

\* The relationship filters and the other filters in the order the loop
\* (i from searchFilters.length - 1 down to 0) pushes them.
RelationshipFilters(filters) == SelectSeq(Reverse(filters), IsRelationship)
NonRelationshipFilters(filters) == SelectSeq(Reverse(filters), IsPlain)

\* One clause {field: {op: value}} of a query; op "literal" stands for the
\* clause {field: value} and op "undefined" for the key OPERATOR_MAP does
\* not hold.
Clause(field, op, value) == [field |-> field, op |-> op, value |-> value]

\* new RegExp(value, 'i')
RegExp(value) == "/" \o value \o "/i"

\* new Date(value)
NewDate(value) == "date:" \o value

\* The query on the related collection built for one relationship filter.
RelationshipQuery(filter) ==
    LET searchField == Split(filter.field)[2]
    IN  IF filter.operator = "like"
        THEN Clause(searchField, "$regex", RegExp(filter.value))
        ELSE IF filter.operator = "not equal"
        THEN Clause(searchField, "$ne", filter.value)
        ELSE Clause(searchField, "$eq", filter.value)

\* OPERATOR_MAP with the two comparison directions exchanged.
OPERATOR_MAP_Exchanged ==
    [o \in PlainOperators \cup {"like"} |->
        CASE o = "equals"                   -> "$eq"
          [] o = "not equal"                -> "$ne"
          [] o = "greater than"             -> "$lt"
          [] o = "less than"                -> "$gt"
          [] o = "greater than or equal to" -> "$gte"
          [] o = "less than or equal to"    -> "$lte"
          [] o = "like"                     -> "$regex"]

OPERATOR_MAP ==
    [o \in PlainOperators \cup {"like"} |->
        CASE o = "equals"                   -> "$eq"
          [] o = "not equal"                -> "$ne"
          [] o = "greater than"             -> "$gt"
          [] o = "less than"                -> "$lt"
          [] o = "greater than or equal to" -> "$gte"
          [] o = "less than or equal to"    -> "$lte"
          [] o = "like"                     -> "$regex"]

\* OPERATOR_MAP[filter.operator]: undefined for a string that is no key, and
\* undefined as a property name is the key 'undefined'.
OperatorKey(operator) ==
    IF operator \in DOMAIN OPERATOR_MAP THEN OPERATOR_MAP[operator] ELSE "undefined"

\* The innerQuery buildQuery pushes for one filter.
InnerQuery(filter) ==
    IF filter.operator = "like"
    THEN Clause(filter.field, OperatorKey(filter.operator), RegExp(filter.value))
    ELSE IF filter.operator = "true"
    THEN Clause(filter.field, "literal", TRUE)
    ELSE IF filter.operator = "false"
    THEN Clause(filter.field, "literal", FALSE)
    ELSE IF filter.field \in {"createdAt", "updatedAt"}
    THEN Clause(filter.field, OperatorKey(filter.operator), NewDate(filter.value))
    ELSE Clause(filter.field, OperatorKey(filter.operator), filter.value)

\* utils.buildQuery(searchFilters): {$and: [...]} with one clause per filter.
BuildQuery(filters) == [and |-> [k \in 1..Len(filters) |-> InnerQuery(filters[k])]]

\* The object {}.
EmptyObject == [k \in {} |-> TRUE]

\* The membership clauses with every result set paired with the path of the
\* filter at the mirrored position.
RelationshipClausesMirrored(results, options) ==
    LET n == Len(results)
    IN  Reverse([i \in 1..n |-> Clause(options[n + 1 - i][1], "$in", results[i])])

\* The loop over the sub-query results (i from results.length - 1 down to 0):
\* one clause {queryOptions[i][0]: {$in: resultIds}} per result.
RelationshipClauses(results, options) ==
    Reverse([i \in 1..Len(results) |-> Clause(options[i][1], "$in", results[i])])

\* The query built from the results without the replacement of an empty $and.
SearchQueryKeepsEmptyAnd(results, options, filters) ==
    [and |-> RelationshipClauses(results, options) \o BuildQuery(filters).and]

\* searchQuery as index builds it once Promise.all has the results.
SearchQuery(results, options, filters) ==
    LET and == RelationshipClauses(results, options) \o BuildQuery(filters).and
    IN  IF Len(and) = 0 THEN EmptyObject ELSE [and |-> and]

\* ---- what the store does with a query

\* The schema type mongoose casts a query value to.
FieldType(field) ==
    CASE field = "age"                        -> "Number"
      [] field \in {"createdAt", "updatedAt"} -> "Date"
      [] OTHER                                -> "String"

\* The position of a document in the default sort (-createdAt): the store's
\* own documents are older than the ones it created on request.
RECURSIVE IndexOf(_, _, _)
IndexOf(seq, x, i) ==
    IF i > Len(seq) THEN 0 ELSE IF seq[i] = x THEN i ELSE IndexOf(seq, x, i + 1)

Age(id) ==
    IF IndexOf(NewIdStr, id, 1) > 0 THEN Len(IdStr) + IndexOf(NewIdStr, id, 1)
    ELSE IndexOf(IdStr, id, 1)

\* The value of a clause cast to the type of its field: the number a numeral
\* reads as, the time of a Date or of a date string on the scale of Age.
Cast(field, value) ==
    CASE FieldType(field) = "Number" -> (CASE value = "21" -> 21 [] OTHER -> 0)
      [] FieldType(field) = "Date"   ->
            (CASE value \in {"date:2020-01-02", "2020-01-02"} -> 1 [] OTHER -> 0)
      [] OTHER                       -> value

\* regexp.test(text) for the patterns and texts at hand.
RegExpTest(regexp, text) ==
    <<regexp, text>> \in { <<"/jo/i", "Jo">>, <<"/jo/i", "joan">>, <<"/N/i", "n">> }

HasField(doc, field) == field \in DOMAIN doc \/ (field = "createdAt" /\ "_id" \in DOMAIN doc)
FieldValue(doc, field) == IF field = "createdAt" THEN Age(doc._id) ELSE doc[field]

\* The document matches one clause. A clause under the key 'undefined'
\* names no operator: when the store accepts it, it matches nothing.
MatchesClause(doc, clause) ==
    LET has == HasField(doc, clause.field)
        fv == FieldValue(doc, clause.field)
        v == Cast(clause.field, clause.value)
        ordered == has /\ FieldType(clause.field) # "String"
    IN  CASE clause.op = "$eq"     -> has /\ fv = v
          [] clause.op = "$ne"     -> ~has \/ fv # v
          [] clause.op = "$gt"     -> ordered /\ fv > v
          [] clause.op = "$lt"     -> ordered /\ fv < v
          [] clause.op = "$gte"    -> ordered /\ fv >= v
          [] clause.op = "$lte"    -> ordered /\ fv <= v
          [] clause.op = "$regex"  -> has /\ RegExpTest(clause.value, fv)
          [] clause.op = "$in"     -> has /\ fv \in Range(clause.value)
          [] clause.op = "literal" -> has /\ fv = clause.value
          [] OTHER                 -> FALSE

Matches(doc, query) ==
    "and" \in DOMAIN query => \A k \in 1..Len(query.and) : MatchesClause(doc, query.and[k])

\* The store refuses {$and: []} ("$and could be blank, which causes an error").
IsEmptyAnd(query) == "and" \in DOMAIN query /\ Len(query.and) = 0

\* The related collection the reference paths owner and editor point to.
RelatedIds == <<"o1", "o2", "o3">>
RelatedDoc(id) ==
    [_id |-> id, name |-> CASE id = "o1" -> "Jo" [] id = "o2" -> "joan" [] OTHER -> "Al"]

\* relationshipClass.find(relationshipQuery, '_id') mapped to the id strings.
RelatedFind(query) ==
    LET found(id) == MatchesClause(RelatedDoc(id), query)
    IN  SelectSeq(RelatedIds, found)

\* find(searchQuery).lean().sort('-createdAt').limit(limit).skip(0)
FindSorted(query, limit) ==
    LET ids == { id \in DOMAIN store : Matches(store[id], query) }
        rank(id) == 1 + Cardinality({ j \in ids : Age(j) > Age(id) })
        n == IF Cardinality(ids) < limit THEN Cardinality(ids) ELSE limit
    IN  [k \in 1..n |-> store[CHOOSE id \in ids : rank(id) = k]]

\* ---- the handler

\* index up to Promise.all: the filters are split into relationship filters,
\* whose sub-queries are issued, and the others.
Index ==
    /\ Handler = "index"
    /\ invoked' = "index"
    /\ \E e \in BOOLEAN : shouldExport' = e
    /\ \E filters \in FilterLists :
          LET rel == RelationshipFilters(filters)
          IN  /\ searchFilters' = filters
              /\ queryOptions' = [k \in 1..Len(rel) |-> Split(rel[k].field)]
              /\ relationshipPromises' =
                    [k \in 1..Len(rel) |->
                        [query |-> RelationshipQuery(rel[k]), state |-> "pending", ids |-> <<>>]]
              /\ nonRelationshipFilters' = NonRelationshipFilters(filters)
    /\ pc' = "indexAll"
    /\ UNCHANGED <<route, className, chainPos, granted, reqClass, responses,
                   nextErrors, store, nCreated, importVars, bulkVars, adminFunctions,
                   reqId, reqBody, itemCount, entity, searchQuery, storeQueries,
                   adminPromises, adminIdx, extraVars>>

\* One relationship sub-query returns its documents.
RelationshipFindResolved ==
    /\ pc = "indexAll"
    /\ \E i \in DOMAIN relationshipPromises :
          /\ relationshipPromises[i].state = "pending"
          /\ relationshipPromises' =
                [relationshipPromises EXCEPT
                    ![i] = [query |-> @.query, state |-> "fulfilled",
                            ids |-> RelatedFind(@.query)]]
    /\ UNCHANGED <<pc, chainVars, responses, nextErrors, store, nCreated, importVars,
                   bulkVars, adminFunctions, reqVars, searchFilters, queryOptions,
                   nonRelationshipFilters, searchQuery, storeQueries,
                   adminPromises, adminIdx, extraVars>>

\* One relationship sub-query fails: Promise.all rejects, the chain skips to
\* its catch and handleError hands the error to next.
RelationshipFindRejected ==
    /\ pc = "indexAll"
    /\ \E i \in DOMAIN relationshipPromises :
          /\ relationshipPromises[i].state = "pending"
          /\ relationshipPromises' =
                [relationshipPromises EXCEPT ![i].state = "rejected"]
    /\ nextErrors' = Append(nextErrors, "MongoError")
    /\ pc' = "done"
    /\ UNCHANGED <<chainVars, responses, store, nCreated, importVars,
                   bulkVars, adminFunctions, reqVars, searchFilters, queryOptions,
                   nonRelationshipFilters, searchQuery, storeQueries,
                   adminPromises, adminIdx, extraVars>>

\* Promise.all settling as soon as no sub-query is pending at the first position.
PromiseAllResolvedEarly ==
    /\ pc = "indexAll"
    /\ \A i \in DOMAIN relationshipPromises :
          i = 1 => relationshipPromises[i].state = "fulfilled"
    /\ LET results == [i \in DOMAIN relationshipPromises |-> relationshipPromises[i].ids]
           query == SearchQuery(results, queryOptions, nonRelationshipFilters)
       IN  /\ searchQuery' = query
           /\ storeQueries' = Append(storeQueries, [op |-> "count", query |-> query])
    /\ pc' = "indexCount"
    /\ UNCHANGED <<chainVars, responses, nextErrors, store, nCreated, importVars,
                   bulkVars, adminFunctions, reqVars, searchFilters, queryOptions,
                   relationshipPromises, nonRelationshipFilters,
                   adminPromises, adminIdx, extraVars>>

\* Promise.all(relationshipPromises) is fulfilled: searchQuery is built and
\* the count query is issued.
PromiseAllResolved ==
    /\ pc = "indexAll"
    /\ \A i \in DOMAIN relationshipPromises : relationshipPromises[i].state = "fulfilled"
    /\ LET results == [i \in DOMAIN relationshipPromises |-> relationshipPromises[i].ids]
           query == SearchQuery(results, queryOptions, nonRelationshipFilters)
       IN  /\ searchQuery' = query
           /\ storeQueries' = Append(storeQueries, [op |-> "count", query |-> query])
    /\ pc' = "indexCount"
    /\ UNCHANGED <<chainVars, responses, nextErrors, store, nCreated, importVars,
                   bulkVars, adminFunctions, reqVars, searchFilters, queryOptions,
                   relationshipPromises, nonRelationshipFilters,
                   adminPromises, adminIdx, extraVars>>

\* The count query returns: the fetch is issued with the same searchQuery.
IndexCountResolved ==
    /\ pc = "indexCount"
    /\ ~IsEmptyAnd(searchQuery)
    /\ itemCount' = Cardinality({ id \in DOMAIN store : Matches(store[id], searchQuery) })
    /\ storeQueries' = Append(storeQueries, [op |-> "find", query |-> searchQuery])
    /\ pc' = "indexFind"
    /\ UNCHANGED <<chainVars, responses, nextErrors, store, nCreated, importVars,
                   bulkVars, adminFunctions, reqId, reqBody, shouldExport, entity,
                   searchFilters, queryOptions, relationshipPromises,
                   nonRelationshipFilters, searchQuery, adminPromises, adminIdx, extraVars>>

\* The store fails the count or the fetch: handleError hands the error to next.
IndexQueryRejected ==
    /\ pc \in {"indexCount", "indexFind"}
    /\ nextErrors' = Append(nextErrors, "MongoError")
    /\ pc' = "done"
    /\ UNCHANGED <<chainVars, responses, store, nCreated, importVars,
                   bulkVars, adminFunctions, reqVars, filterVars>>

\* The CSV download: res.set('Content-Type', 'text/csv') and
\* res.send(convertToCsv(results, headers)).
CsvResponse(results) ==
    [status |-> 200, kind |-> "csv", contentType |-> "text/csv",
     body |-> [headers |-> SchemaHeaders, rows |-> results]]

\* index handing the envelope on to respondWithResult after the CSV download too.
IndexRespondAlsoEnvelope(results) ==
    (IF shouldExport THEN << CsvResponse(results) >> ELSE <<>>)
    \o RespondWithResult(blacklistResponseAttributes,
                         [itemCount |-> itemCount, items |-> results], FALSE)

\* What index does with the rows once they are final: the CSV download and
\* null, or the envelope, handed to respondWithResult.
IndexRespond(results) ==
    IF shouldExport
    THEN << CsvResponse(results) >>
         \o RespondWithResult(blacklistResponseAttributes, Null, FALSE)
    ELSE RespondWithResult(blacklistResponseAttributes,
                           [itemCount |-> itemCount, items |-> results], FALSE)

\* promiseArray as the forOwn loop fills it: for every key in turn, the
\* function of the key called on the field of every row.
RECURSIVE PromiseArray(_, _)
PromiseArray(results, k) ==
    IF k > Len(AdminFunctionKeys) THEN <<>>
    ELSE [r \in 1..Len(results) |->
             AdminFunction(AdminFunctionKeys[k], Get(results[r], AdminFunctionKeys[k]))]
         \o PromiseArray(results, k + 1)

\* results[index][key] = o
SetField(row, key, o) == [f \in (DOMAIN row) \cup {key} |-> IF f = key THEN o ELSE row[f]]

\* The Promise.each iterator taking the promises row by row: the row is
\* i over the number of keys, the key the remainder.
EachIteratorRowMajor(results, o, i) ==
    LET numKeys == Len(AdminFunctionKeys)
        index == i \div numKeys
        key == AdminFunctionKeys[(i % numKeys) + 1]
    IN  [results EXCEPT ![index + 1] = SetField(@, key, o)]

\* The Promise.each iterator (o, i), i counted from 0.
EachIterator(results, o, i) ==
    LET revolutions == i \div Len(results)
        index == Len(results) - ((revolutions + 1) * Len(results) - i)
    IN  [results EXCEPT ![index + 1] = SetField(@, AdminFunctionKeys[revolutions + 1], o)]

\* The fetch settles and the model is asked for its enrichment functions:
\* without them the answer goes out, with them every enrichment call is made
\* and Promise.each starts on the promises.
IndexFindResolved ==
    /\ pc = "indexFind"
    /\ \E f \in BOOLEAN : adminFunctions' = f
    /\ LET results == FindSorted(searchQuery, DefaultLimit)
       IN  /\ entity' = results
           /\ IF adminFunctions'
              THEN /\ pc' = "indexEach"
                   /\ responses' = responses
                   /\ adminPromises' = PromiseArray(results, 1)
              ELSE /\ pc' = "done"
                   /\ responses' = responses \o IndexRespond(results)
                   /\ adminPromises' = adminPromises
    /\ adminIdx' = 0
    /\ UNCHANGED <<chainVars, nextErrors, store, nCreated, importVars, bulkVars,
                   reqId, reqBody, shouldExport, itemCount,
                   searchFilters, queryOptions, relationshipPromises,
                   nonRelationshipFilters, searchQuery, storeQueries, extraVars>>

\* The promise Promise.each waits for is fulfilled: the iterator writes its
\* value into the rows.
IndexEachIteration ==
    /\ pc = "indexEach"
    /\ adminIdx < Len(adminPromises)
    /\ entity' = EachIterator(entity, adminPromises[adminIdx + 1], adminIdx)
    /\ adminIdx' = adminIdx + 1
    /\ UNCHANGED <<pc, chainVars, responses, nextErrors, store, nCreated, importVars,
                   bulkVars, adminFunctions, reqId, reqBody, shouldExport, itemCount,
                   searchFilters, queryOptions, relationshipPromises,
                   nonRelationshipFilters, searchQuery, storeQueries, adminPromises, extraVars>>

\* The promise Promise.each waits for is rejected: handleError hands the
\* error to next.
IndexEachRejected ==
    /\ pc = "indexEach"
    /\ adminIdx < Len(adminPromises)
    /\ nextErrors' = Append(nextErrors, "Error")
    /\ pc' = "done"
    /\ UNCHANGED <<chainVars, responses, store, nCreated, importVars,
                   bulkVars, adminFunctions, reqVars, filterVars>>

\* Promise.each has gone through every promise: the answer goes out.
IndexEachResolved ==
    /\ pc = "indexEach"
    /\ adminIdx = Len(adminPromises)
    /\ responses' = responses \o IndexRespond(entity)
    /\ pc' = "done"
    /\ UNCHANGED <<chainVars, nextErrors, store, nCreated, importVars, bulkVars,
                   adminFunctions, reqVars, filterVars>>

\* --------------------------------------------------------- the specification

Next ==
    \/ Receive
    \/ HasRoleGrant
    \/ HasRoleDeny
    \/ AttachClass
    \/ ImportFromCsv
    \/ GetFileRejected
    \/ GetFileResolved
    \/ CreateWithRow
    \/ RowResolved
    \/ RowRejected
    \/ GetSchema
    \/ Show
    \/ ShowFindOneResolved
    \/ ShowEachResolved
    \/ Create
    \/ CreateResolved
    \/ CreateRejected
    \/ Update
    \/ UpdateFindOneResolved
    \/ UpdateSaveResolved
    \/ UpdateSaveRejected
    \/ Destroy
    \/ DestroyFindByIdResolved
    \/ DestroyRemoveResolved
    \/ DestroyRemoveRejected
    \/ DestroyMultiple
    \/ DestroyMultipleFindResolved
    \/ DestroyMultipleFindRejected
    \/ RemoveResolved
    \/ RemoveRejected
    \/ PromiseEachFulfilled
    \/ PromiseEachRejected
    \/ PromiseEachDone
    \/ Index
    \/ RelationshipFindResolved
    \/ RelationshipFindRejected
    \/ PromiseAllResolved
    \/ IndexCountResolved
    \/ IndexQueryRejected
    \/ IndexFindResolved
    \/ IndexEachIteration
    \/ IndexEachRejected
    \/ IndexEachResolved

Spec == Init /\ [][Next]_vars

\* ------------------------------------------------- an import of many rows

\* A file of 1..MaxFinRows plain data rows under one schema header, at the
\* point where importFromCsv has handed every row to createWithRow.
PlainArray(n) == <<(<<"name">>)>> \o [i \in 1..n |-> <<"a">>]

InitManyRows ==
    /\ pc = "rows"
    /\ route = 3
    /\ className = "User"
    /\ chainPos = 3
    /\ granted = TRUE
    /\ reqClass = "User"
    /\ invoked = "importFromCsv"
    /\ responses = <<>>
    /\ nextErrors = <<>>
    /\ store = [id \in {} |-> Null]
    /\ nCreated = 0
    /\ \E n \in 1..MaxFinRows :
          /\ responseArray = PlainArray(n)
          /\ rowObj = [i \in 1..n |-> BuildObject(<<"name">>, <<"a">>)]
          /\ rowState = [i \in 1..n |-> "findById"]
    /\ finishedRows = 0
    /\ erroredRows = NoErrors
    /\ promiseArray = <<>>
    /\ eachIdx = 0
    /\ adminFunctions = FALSE
    /\ reqId = "none"
    /\ reqBody = Null
    /\ shouldExport = FALSE
    /\ itemCount = 0
    /\ entity = Null
    /\ searchFilters = <<>>
    /\ queryOptions = <<>>
    /\ relationshipPromises = <<>>
    /\ nonRelationshipFilters = <<>>
    /\ searchQuery = Null
    /\ storeQueries = <<>>
    /\ adminPromises = <<>>
    /\ adminIdx = 0
    /\ csvTable = Null
    /\ csvString = <<>>
    /\ arrData = Null
    /\ peer = Null

NextManyRows ==
    \/ CreateWithRow
    \/ RowResolved
    \/ RowRejected

SpecManyRows == InitManyRows /\ [][NextManyRows]_vars

\* ------------------------------------------------- the CSV codec (helper)

\* A text is a sequence of characters; a cell of a table is a text.
Quote == "\""

\* [a-zA-Z0-9_] over the characters the tables are written in.
WordCharacters == {"a", "b", "n", "1", "_"}

RECURSIVE Join(_, _)
\* headers.join(',')
Join(list, separator) ==
    IF list = <<>> THEN <<>>
    ELSE IF Len(list) = 1 THEN list[1]
    ELSE list[1] \o <<separator>> \o Join(Tail(list), separator)

RECURSIVE ReplaceAll(_, _, _)
\* text.replace(/c/g, replacement) for a single character c
ReplaceAll(text, c, replacement) ==
    IF text = <<>> THEN <<>>
    ELSE (IF Head(text) = c THEN replacement ELSE << Head(text) >>)
         \o ReplaceAll(Tail(text), c, replacement)

RECURSIVE WordRun(_, _)
\* How many characters of [a-zA-Z0-9_]+ stand at position i of the text.
WordRun(text, i) ==
    IF i <= Len(text) /\ text[i] \in WordCharacters
    THEN 1 + WordRun(text, i + 1) ELSE 0

\* One attempt of /(['"])?([a-zA-Z0-9_]+)(['"])?:/ at the head of the text:
\* the length of the match (0 when there is none) and its second group.
KeyMatch(text) ==
    LET q1 == IF text # <<>> /\ text[1] \in {Quote, "'"} THEN 1 ELSE 0
        w == WordRun(text, q1 + 1)
        after == q1 + w + 1
        q2 == IF after <= Len(text) /\ text[after] \in {Quote, "'"}
              THEN 1 ELSE 0
    IN  IF w > 0 /\ after + q2 <= Len(text) /\ text[after + q2] = ":"
        THEN [length |-> after + q2, word |-> SubSeq(text, q1 + 1, q1 + w)]
        ELSE [length |-> 0, word |-> <<>>]

RECURSIVE ReplaceKeys(_)
\* text.replace(/(['"])?([a-zA-Z0-9_]+)(['"])?:/g, '""$2"": ')
ReplaceKeys(text) ==
    IF text = <<>> THEN <<>>
    ELSE LET m == KeyMatch(text)
         IN  IF m.length > 0
             THEN <<Quote, Quote>> \o m.word \o <<Quote, Quote, ":", " ">>
                  \o ReplaceKeys(SubSeq(text, m.length + 1, Len(text)))
             ELSE << Head(text) >> \o ReplaceKeys(Tail(text))

\* A cell of a table, in the objects handed to convertToCsv and in the arrays
\* csvToArray returns: a string, or undefined.
Value(text) == [defined |-> TRUE, chars |-> text]
UndefinedValue == [defined |-> FALSE, chars |-> <<>>]

\* One cell as convertToCsv writes it: nothing for undefined or null, else
\* the value as a string with its quotes doubled, between quotes.
ConvertCell(value) ==
    IF ~value.defined THEN <<>>
    ELSE <<Quote>> \o ReplaceAll(value.chars, Quote, <<Quote, Quote>>)
         \o <<Quote>>

RECURSIVE ConvertRow(_, _)
ConvertRow(row, x) ==
    IF x > Len(row) THEN << "\n" >>
    ELSE (IF x > 1 THEN << "," >> ELSE <<>>)
         \o ConvertCell(row[x]) \o ConvertRow(row, x + 1)

RECURSIVE ConvertRows(_, _)
ConvertRows(result, i) ==
    IF i > Len(result) THEN <<>>
    ELSE ConvertRow(result[i], 1) \o ConvertRows(result, i + 1)

\* convertToCsv(result, headers); result[i][x] is the value the i-th object
\* has under headers[x].
ConvertToCsv(result, headers) ==
    ReplaceKeys(ReplaceAll(
        Join(headers, ",") \o << "\n" >> \o ConvertRows(result, 1),
        "'", <<Quote, Quote>>))

RECURSIVE ClosingQuote(_, _)
\* Where "([^"]*(?:""[^"]*)*)" ends when its opening quote stands just before
\* position i: the position of the closing quote, 0 when the text has none.
\* A doubled quote is taken as content first and as the end only when that
\* leads nowhere.
ClosingQuote(text, i) ==
    IF i > Len(text) THEN 0
    ELSE IF text[i] # Quote THEN ClosingQuote(text, i + 1)
    ELSE IF i + 1 <= Len(text) /\ text[i + 1] = Quote
         THEN LET further == ClosingQuote(text, i + 2)
              IN  IF further # 0 THEN further ELSE i
         ELSE i

RECURSIVE StandardRun(_, _)
\* How many characters of [^"\,\r\n]* stand at position i of the text.
StandardRun(text, i) ==
    IF i <= Len(text) /\ text[i] \notin {Quote, ",", "\r", "\n"}
    THEN 1 + StandardRun(text, i + 1) ELSE 0

RECURSIVE Unescape(_)
\* value.replace(/""/g, '"')
Unescape(text) ==
    IF Len(text) >= 2 /\ text[1] = Quote /\ text[2] = Quote
    THEN << Quote >> \o Unescape(SubSeq(text, 3, Len(text)))
    ELSE IF text = <<>> THEN <<>>
    ELSE << Head(text) >> \o Unescape(Tail(text))

\* The length of the delimiter (\,|\r?\n|\r|^) at 0-based position p, -1 when
\* none stands there.
DelimiterLength(text, p) ==
    IF p < Len(text) /\ text[p + 1] = "," THEN 1
    ELSE IF p + 1 < Len(text) /\ text[p + 1] = "\r"
                              /\ text[p + 2] = "\n" THEN 2
    ELSE IF p < Len(text) /\ text[p + 1] \in {"\n", "\r"} THEN 1
    ELSE IF p = 0 THEN 0
    ELSE -1

RECURSIVE NextDelimiter(_, _)
\* The first position from p on where the pattern can match, -1 when none.
NextDelimiter(text, p) ==
    IF p > Len(text) THEN -1
    ELSE IF DelimiterLength(text, p) >= 0 THEN p
    ELSE NextDelimiter(text, p + 1)

\* if (arrMatches[2]) ... else strMatchedValue = arrMatches[3]: an empty
\* capture is falsy, and the third group of a quoted field is undefined.
QuotedValue(raw) ==
    IF raw # <<>> THEN Value(Unescape(raw)) ELSE UndefinedValue

\* One objPattern.exec(strData) from lastIndex on.
Exec(text, lastIndex) ==
    LET p == NextDelimiter(text, lastIndex)
        d == DelimiterLength(text, p)
        f == p + d
        closing == IF f < Len(text) /\ text[f + 1] = Quote
                   THEN ClosingQuote(text, f + 2) ELSE 0
    IN  IF p < 0 THEN [matched |-> FALSE]
        ELSE IF closing # 0
        THEN [matched |-> TRUE, newRow |-> d > 0 /\ text[p + 1] # ",",
              value |-> QuotedValue(SubSeq(text, f + 2, closing - 1)),
              from |-> p, lastIndex |-> closing]
        ELSE [matched |-> TRUE, newRow |-> d > 0 /\ text[p + 1] # ",",
              value |-> Value(SubSeq(text, f + 1, f + StandardRun(text, f + 1))),
              from |-> p,
              lastIndex |-> f + StandardRun(text, f + 1)]

\* arrData[arrData.length - 1].push(strMatchedValue), after a push of a new
\* row where the delimiter asks for one.
Push(data, m) ==
    LET rows == IF m.newRow THEN Append(data, <<>>) ELSE data
    IN  [rows EXCEPT ![Len(rows)] = Append(@, m.value)]

RECURSIVE MatchLoop(_, _, _)
\* The while loop; it never ends when a match is empty: exec leaves lastIndex
\* where it is and finds the same match again.
MatchLoop(text, lastIndex, data) ==
    LET m == Exec(text, lastIndex)
    IN  IF ~m.matched THEN [hangs |-> FALSE, rows |-> data]
        ELSE IF m.lastIndex = m.from THEN [hangs |-> TRUE]
        ELSE MatchLoop(text, m.lastIndex, Push(data, m))

\* csvToArray(strData)
CsvToArray(strData) == MatchLoop(strData, 0, << <<>> >>)

\* Tables: a header list of distinct field names and up to MaxCodecRows rows
\* of one string cell for every header.
MaxCodecRows == 2
CodecHeaders == { << <<"n">> >>, << <<"n">>, <<"a", "b">> >> }
CodecCells ==
    { Value(text) : text \in
        { <<"a">>, <<>>, <<"a", ":", "b">>, <<"a", "'", "b">>,
          <<"a", Quote, "b">>, <<"a", ",", "b">>, <<"a", "\n", "b">> } }
CodecTables(headers) ==
    { [headers |-> headers, rows |-> r] :
        r \in UNION { [1..n -> [1..Len(headers) -> CodecCells]]
                        : n \in 0..MaxCodecRows } }

\* The table goes through convertToCsv.
ConvertTable ==
    /\ pc = "convertToCsv"
    /\ csvString' = ConvertToCsv(csvTable.rows, csvTable.headers)
    /\ pc' = "csvToArray"
    /\ UNCHANGED <<chainVars, responses, nextErrors, store, nCreated, importVars,
                   bulkVars, adminFunctions, reqVars, searchFilters,
                   queryOptions, relationshipPromises, nonRelationshipFilters,
                   searchQuery, storeQueries, adminPromises, adminIdx,
                   csvTable, arrData, peer>>

\* The text goes through csvToArray, which returns or never does.
ParseText ==
    /\ pc = "csvToArray"
    /\ arrData' = CsvToArray(csvString)
    /\ pc' = IF arrData'.hangs THEN "hung" ELSE "done"
    /\ UNCHANGED <<chainVars, responses, nextErrors, store, nCreated, importVars,
                   bulkVars, adminFunctions, reqVars, searchFilters,
                   queryOptions, relationshipPromises, nonRelationshipFilters,
                   searchQuery, storeQueries, adminPromises, adminIdx,
                   csvTable, csvString, peer>>

InitCodec ==
    /\ pc = "convertToCsv"
    /\ route = 0
    /\ className = "none"
    /\ chainPos = 0
    /\ granted = FALSE
    /\ reqClass = "none"
    /\ invoked = "none"
    /\ responses = <<>>
    /\ nextErrors = <<>>
    /\ store = [id \in {} |-> Null]
    /\ nCreated = 0
    /\ responseArray = <<>>
    /\ rowObj = <<>>
    /\ rowState = <<>>
    /\ finishedRows = 0
    /\ erroredRows = NoErrors
    /\ promiseArray = <<>>
    /\ eachIdx = 0
    /\ adminFunctions = FALSE
    /\ reqId = "none"
    /\ reqBody = Null
    /\ shouldExport = FALSE
    /\ itemCount = 0
    /\ entity = Null
    /\ searchFilters = <<>>
    /\ queryOptions = <<>>
    /\ relationshipPromises = <<>>
    /\ nonRelationshipFilters = <<>>
    /\ searchQuery = Null
    /\ storeQueries = <<>>
    /\ adminPromises = <<>>
    /\ adminIdx = 0
    /\ \E headers \in CodecHeaders : csvTable \in CodecTables(headers)
    /\ csvString = <<>>
    /\ arrData = Null
    /\ peer = Null

NextCodec ==
    \/ ConvertTable
    \/ ParseText

SpecCodec == InitCodec /\ [][NextCodec]_vars

\* ------------------------------------------- two imports at the same time

\* What a request keeps to itself while the callbacks of the other one run:
\* its position, its response object, and the variables importFromCsv
\* declares inside its then callback.
Request(position, sent, array, objects, states, finished, errored) ==
    [pc |-> position, responses |-> sent, responseArray |-> array,
     rowObj |-> objects, rowState |-> states, finishedRows |-> finished,
     erroredRows |-> errored]

\* The event loop turns from the callbacks of one request to those of the
\* other.
Interleave ==
    /\ peer # Null
    /\ pc' = peer.pc
    /\ responses' = peer.responses
    /\ responseArray' = peer.responseArray
    /\ rowObj' = peer.rowObj
    /\ rowState' = peer.rowState
    /\ finishedRows' = peer.finishedRows
    /\ erroredRows' = peer.erroredRows
    /\ peer' = Request(pc, responses, responseArray, rowObj, rowState,
                       finishedRows, erroredRows)
    /\ UNCHANGED <<chainVars, nextErrors, store, nCreated, bulkVars,
                   adminFunctions, reqVars, searchFilters, queryOptions,
                   relationshipPromises, nonRelationshipFilters, searchQuery,
                   storeQueries, adminPromises, adminIdx, csvTable, csvString,
                   arrData>>

\* A request for the class User that has passed hasRole and attachClass and
\* stands at the given position of the operation its route leads to, with
\* the collection one of the given ones and the other request in progress
\* (Null when there is none).
Arrived(position, routeNumber, operation, stores, other) ==
    /\ pc = position
    /\ route = routeNumber
    /\ className = "User"
    /\ chainPos = 3
    /\ granted = TRUE
    /\ reqClass = "User"
    /\ invoked = operation
    /\ responses = <<>>
    /\ nextErrors = <<>>
    /\ store \in stores
    /\ nCreated = 0
    /\ responseArray = <<>>
    /\ rowObj = <<>>
    /\ rowState = <<>>
    /\ finishedRows = 0
    /\ erroredRows = NoErrors
    /\ promiseArray = <<>>
    /\ eachIdx = 0
    /\ adminFunctions = FALSE
    /\ reqId = "none"
    /\ reqBody = Null
    /\ shouldExport = FALSE
    /\ itemCount = 0
    /\ entity = Null
    /\ searchFilters = <<>>
    /\ queryOptions = <<>>
    /\ relationshipPromises = <<>>
    /\ nonRelationshipFilters = <<>>
    /\ searchQuery = Null
    /\ storeQueries = <<>>
    /\ adminPromises = <<>>
    /\ adminIdx = 0
    /\ csvTable = Null
    /\ csvString = <<>>
    /\ arrData = Null
    /\ peer = other

\* An import request waiting for its file, the collection holding one
\* document.
ImportWaitingForFile(other) ==
    Arrived("getFile", 3, "importFromCsv", { [id \in {"id1"} |-> InitDoc(id)] }, other)

\* Two import requests for the same class, both waiting for their file.
InitTwoImports ==
    ImportWaitingForFile(Request("getFile", <<>>, <<>>, <<>>, <<>>, 0, NoErrors))

NextTwoImports ==
    \/ GetFileRejected
    \/ GetFileResolved
    \/ CreateWithRow
    \/ RowResolved
    \/ RowRejected
    \/ Interleave

SpecTwoImports == InitTwoImports /\ [][NextTwoImports]_vars

\* ------------------------------------------ an import whose steps all happen

NextImport ==
    \/ GetFileRejected
    \/ GetFileResolved
    \/ CreateWithRow
    \/ RowResolved
    \/ RowRejected

\* awsHelper.getFile settles, and so does every findById, create and
\* findByIdAndUpdate the import has issued.
SpecImportSettles ==
    /\ ImportWaitingForFile(Null)
    /\ [][NextImport]_vars
    /\ WF_vars(GetFileRejected \/ GetFileResolved)
    /\ WF_vars(CreateWithRow)
    /\ WF_vars(RowResolved \/ RowRejected)

\* ------------------------------------- a list request while others write

\* documents other requests create while the list request is in progress
MaxWrites == 1

\* Another request's create inserts its document.
OtherRequestCreates ==
    /\ invoked = "index"
    /\ pc # "done"
    /\ nCreated < MaxWrites
    /\ LET doc == CreateDoc([name |-> "b"], NewIdStr[nCreated + 1])
       IN  store' = Put(store, doc._id, doc)
    /\ nCreated' = nCreated + 1
    /\ UNCHANGED <<pc, chainVars, responses, nextErrors, importVars, bulkVars,
                   adminFunctions, reqVars, filterVars>>

\* Another request's destroy removes a document.
OtherRequestRemoves ==
    /\ invoked = "index"
    /\ pc # "done"
    /\ \E id \in DOMAIN store :
          store' = [i \in (DOMAIN store) \ {id} |-> store[i]]
    /\ UNCHANGED <<pc, chainVars, responses, nextErrors, nCreated, importVars,
                   bulkVars, adminFunctions, reqVars, filterVars>>

\* A list request that has reached index.
InitListing == Arrived("chain", 4, "none", InitStores, Null)

NextListing ==
    \/ Index
    \/ RelationshipFindResolved
    \/ RelationshipFindRejected
    \/ PromiseAllResolved
    \/ IndexCountResolved
    \/ IndexQueryRejected
    \/ IndexFindResolved
    \/ IndexEachIteration
    \/ IndexEachRejected
    \/ IndexEachResolved
    \/ OtherRequestCreates
    \/ OtherRequestRemoves

SpecListingWithWriters == InitListing /\ [][NextListing]_vars

\* --------------------------------------------------------------- properties

\* The data rows of the import and what has become of them.
DataRows == 1..(Len(responseArray) - 1)
Importing == invoked = "importFromCsv" /\ pc = "rows"
Settled(row) == rowState[row] \in {"updated", "created", "rejected"}
AllSettled == \A row \in DOMAIN rowState : Settled(row)
HasUnknownHeader == UnknownHeaders(responseArray[1], Len(responseArray[1])) # <<>>
RowParseFails(row) == RowParseErrors(responseArray[1], responseArray[row + 1], 1) # <<>>

\* C1: an import whose header row holds a cell that is no schema field is
\* answered with the error naming that header, and no data row is handed to
\* createWithRow (no findById, create or findByIdAndUpdate is issued).
C1_UnknownHeaderAbortsImport ==
    (Importing /\ HasUnknownHeader) =>
        /\ \E i \in 1..Len(responses) :
              /\ responses[i].status = 503
              /\ responses[i].body.errors.error.message[2] \notin Range(SchemaHeaders)
        /\ DOMAIN rowState = {}
        /\ nCreated = 0

\* C2: whenever an import has sent a response, every data row has settled:
\* finishedRows equals the number of rows minus the header row and no row
\* operation is pending.
C2_ResponseOnlyAfterAllRowsSettled ==
    (Importing /\ Len(responses) > 0) =>
        /\ finishedRows = Len(responseArray) - 1
        /\ AllSettled

\* C3: a data row with a bracket-delimited cell that is no valid JSON is the
\* only row that cell makes fail: once every row has settled the row is in
\* erroredRows, the request has exactly one response, the 400 listing that
\* row's error under its row index, and a row that neither fails to parse
\* nor is rejected by the store is no failure.
C3_ParseFailureFailsOnlyItsRow ==
    (Importing /\ ~HasUnknownHeader /\ AllSettled
        /\ \E row \in DataRows : RowParseFails(row)) =>
        /\ Len(responses) = 1
        /\ responses[1].status = 400
        /\ \A row \in DataRows :
              /\ RowParseFails(row) =>
                    /\ row \in DOMAIN erroredRows
                    /\ ("error" \o ToString(row)) \in DOMAIN responses[1].body.errors
              /\ (~RowParseFails(row) /\ rowState[row] # "rejected") =>
                    row \notin DOMAIN erroredRows

\* An entity of a JSON body carries a password.
CarriesPassword(response) ==
    IF invoked = "index"
    THEN \E i \in 1..Len(response.body.items) : "password" \in DOMAIN response.body.items[i]
    ELSE "password" \in DOMAIN response.body

\* C4: no JSON response body of list, get-one, create or update holds an
\* entity with a password field, the items of a list response included.
C4_NoPasswordInAnyJsonBody ==
    \A i \in 1..Len(responses) :
        (invoked \in {"index", "show", "create", "update"} /\ responses[i].kind = "json")
            => ~CarriesPassword(responses[i])

\* C5: a bulk delete issues one removal per matched document and sends 204
\* only when every one of the removals has settled.
C5_NoContentOnlyAfterAllRemovals ==
    (invoked = "destroyMultiple" /\ pc \in {"destroyMultipleEach", "done"}
        /\ \E i \in 1..Len(responses) : responses[i].status = 204) =>
        \A j \in DOMAIN promiseArray : promiseArray[j].state # "pending"

\* C6: a request for a class name that is no registered model never reaches
\* a controller operation, req.class is never set for it, and once the
\* attachClass guard has run its one response is the 404 naming the class.
C6_UnknownClassStopsAtGuard ==
    (route # 0 /\ className \notin ModelNames) =>
        /\ invoked = "none"
        /\ reqClass = "none"
        /\ pc \in {"chain", "done"}
        /\ (pc = "done" /\ granted) =>
              /\ Len(responses) = 1
              /\ responses[1].status = 404
              /\ responses[1].body.errors.error.message = <<"Could not find class: ", className>>

C6_Witness ==
    /\ className \notin ModelNames
    /\ route # 0
    /\ granted
    /\ pc = "done"
    /\ Len(responses) = 1
    /\ responses[1].status = 404

\* C7: on every route the model lookup and the controller operation run only
\* for a request auth.hasRole('admin') has passed on: without the grant
\* req.class is unset, no controller operation is invoked, nothing reaches
\* the error boundary and the only response is the refusal of hasRole.
C7_NothingRunsBeforeGrant ==
    ~granted =>
        /\ invoked = "none"
        /\ reqClass = "none"
        /\ nextErrors = <<>>
        /\ \A i \in 1..Len(responses) : responses[i].status = 403
        /\ store \in InitStores

C7_Witness ==
    /\ granted
    /\ invoked = "destroy"
    /\ pc = "done"
    /\ route = 9

\* C8: when the last row of an import settles, the response returnIfFinished
\* sends is 204 if no row failed; if k >= 1 rows failed it is 400 with
\* min(k, 5) entries keyed by the index of a failed row, and with the
\* "And k - 5 more errors" entry exactly when k > 5.
C8_CompletionOutcome ==
    (Importing /\ AllSettled /\ DOMAIN rowState # {}) =>
        LET failed == { row \in DOMAIN rowState : rowState[row] = "rejected" }
            k == Cardinality(failed)
            final == responses[Len(responses)]
        IN  /\ Len(responses) >= 1
            /\ k = 0 => final.status = 204 /\ final.kind = "end"
            /\ k >= 1 =>
                  /\ final.status = 400
                  /\ LET errors == final.body.errors
                         rowKeys == (DOMAIN errors) \ {"excess"}
                     IN  /\ Cardinality(rowKeys) = (IF k < 5 THEN k ELSE 5)
                         /\ rowKeys \subseteq { "error" \o ToString(row) : row \in failed }
                         /\ ("excess" \in DOMAIN errors) <=> (k > 5)
                         /\ k > 5 => errors["excess"].message = <<"And more errors", k - 5>>

C8_Witness ==
    /\ Importing
    /\ AllSettled
    /\ Cardinality({ row \in DOMAIN rowState : rowState[row] = "rejected" }) = 6
    /\ "excess" \in DOMAIN responses[Len(responses)].body.errors

\* The _id cell of a data row names a document of the collection.
RowIdCell(row) ==
    LET csvHeaders == responseArray[1]
        js == { j \in 1..Len(csvHeaders) : csvHeaders[j] = "_id" }
    IN  IF js = {} THEN "" ELSE CellAt(responseArray[row + 1], CHOOSE j \in js : \A j2 \in js : j2 <= j)
RowIdExists(row) == RowIdCell(row) \in DOMAIN store

\* C9: a row whose _id names an existing document gets findByIdAndUpdate on
\* that document, which then holds the row's values, and no document is
\* created for it; any other row loses _id and gets one create, so that the
\* created documents are exactly one per such settled row, each under an
\* identifier of the store's own.
C9_UpsertByRow ==
    Importing =>
        /\ \A row \in DOMAIN rowState :
              /\ rowState[row] \in {"findByIdAndUpdate", "updated"} =>
                    /\ RowIdExists(row)
                    /\ rowObj[row]._id = RowIdCell(row)
              /\ rowState[row] \in {"create", "created"} =>
                    /\ ~RowIdExists(row)
                    /\ "_id" \notin DOMAIN rowObj[row]
              /\ rowState[row] = "updated" =>
                    \E r2 \in DOMAIN rowState :
                        /\ rowState[r2] = "updated"
                        /\ RowIdCell(r2) = RowIdCell(row)
                        /\ \A key \in (DOMAIN rowObj[r2]) \cap Range(SchemaHeaders) :
                              store[RowIdCell(row)][key] = rowObj[r2][key]
        /\ (DOMAIN store) \ Ids
              = { NewIdStr[c] : c \in 1..Cardinality({ row \in DOMAIN rowState :
                                                         rowState[row] = "created" }) }
        /\ \A id \in DOMAIN store : store[id]._id = id

C9_Witness ==
    /\ Importing
    /\ \E r1, r2 \in DOMAIN rowState :
          /\ rowState[r1] = "updated"
          /\ rowState[r2] = "created"
          /\ RowIdCell(r2) \in Ids

\* C10: a store error on one row is recorded under that row's index and no
\* other; every row is handed to the store, the rows that have settled are
\* counted one by one, and whatever the other rows did a row still in
\* flight can go on, so the batch never stops short of settling every row.
C10_SiblingIsolation ==
    Importing =>
        /\ DOMAIN rowState = DataRows
        /\ DOMAIN erroredRows = { row \in DOMAIN rowState : rowState[row] = "rejected" }
        /\ finishedRows = Cardinality({ row \in DOMAIN rowState : Settled(row) })
        /\ (~AllSettled) => ENABLED (CreateWithRow \/ RowResolved \/ RowRejected)

C10_Witness ==
    /\ Importing
    /\ AllSettled
    /\ \E r1, r2 \in DOMAIN rowState :
          /\ r1 < r2
          /\ rowState[r1] = "rejected"
          /\ rowState[r2] \in {"created", "updated"}

\* C11: every response the import sends for an unknown CSV header or for a
\* structured cell that does not parse has a 4xx status and a body of the
\* form {errors: {...}}.
ClientInputErrorMessages ==
    {"The header does not match any properties in the schema", "Error parsing array"}

IsClientInputError(response) ==
    /\ response.kind = "errors"
    /\ "error" \in DOMAIN response.body.errors
    /\ response.body.errors.error.message[1] \in ClientInputErrorMessages

C11_ImportInputErrorsAre4xx ==
    invoked = "importFromCsv" =>
        \A k \in DOMAIN responses :
            IsClientInputError(responses[k]) =>
                /\ responses[k].status \in 400..499
                /\ "errors" \in DOMAIN responses[k].body

\* C12: the object built for a data row has a key for a header only if the
\* header is _id or is not a forbidden request field, it has a key for every
\* other header that is not forbidden, an empty or absent cell yields the
\* empty string under its header, and no stored document gets a forbidden
\* field from a CSV cell.
ForbiddenImportFields ==
    {"salt", "resetPasswordExpires", "resetPasswordToken", "updatedAt", "createdAt", "__v"}

C12_RowBuilding ==
    Importing =>
        /\ \A row \in DataRows :
              LET csvHeaders == responseArray[1]
                  cells == responseArray[row + 1]
                  object == rowObj[row]
              IN  /\ DOMAIN object \subseteq Range(csvHeaders) \ ForbiddenImportFields
                  /\ Range(csvHeaders) \ (ForbiddenImportFields \cup {"_id"})
                        \subseteq DOMAIN object
                  /\ \A j \in 1..Len(csvHeaders) :
                        /\ csvHeaders[j] \in DOMAIN object
                        /\ j > Len(cells) \/ cells[j] = ""
                        => object[csvHeaders[j]] = ""
        /\ \A id \in DOMAIN store :
              /\ "salt" \in DOMAIN store[id] => store[id].salt = InitDoc(id).salt
              /\ store[id].__v = InitDoc(id).__v

\* A short row under the headers salt,tags was imported: its object holds
\* only tags, as the empty string, and the row was created.
C12_Witness ==
    /\ Importing
    /\ responseArray[1] = <<"salt", "tags">>
    /\ \E row \in DataRows :
          /\ Len(responseArray[row + 1]) = 1
          /\ responseArray[row + 1][1] = "s"
          /\ rowState[row] = "created"
          /\ rowObj[row] = [tags |-> ""]

\* The list request has built its query and sent it to the store.
Listing == invoked = "index" /\ storeQueries # <<>>

Bijections(n) == { pi \in [1..n -> 1..n] : \A a, b \in 1..n : pi[a] = pi[b] => a = b }

\* C13: when the list request has no filters, the predicate sent to the store
\* for the count and for the fetch is {}; and no list request ever sends the
\* literal empty conjunction {$and: []}.
C13_EmptyConjunctionMatchesAll ==
    invoked = "index" =>
        \A k \in DOMAIN storeQueries :
            LET query == storeQueries[k].query
            IN  /\ "and" \in DOMAIN query => Len(query.and) > 0
                /\ searchFilters = <<>> => DOMAIN query = {}

\* A list request without filters has sent its count and its fetch, and the
\* count is the number of documents in the collection.
C13_Witness ==
    /\ invoked = "index"
    /\ searchFilters = <<>>
    /\ Len(storeQueries) = 2
    /\ storeQueries[1].op = "count" /\ DOMAIN storeQueries[1].query = {}
    /\ storeQueries[2].op = "find" /\ DOMAIN storeQueries[2].query = {}
    /\ itemCount = Cardinality(DOMAIN store)
    /\ itemCount > 0

\* The native operator each plain operator string stands for, and what it
\* compares.
NativeOperator(operator) ==
    CASE operator = "equals"                   -> "$eq"
      [] operator = "not equal"                -> "$ne"
      [] operator = "greater than"             -> "$gt"
      [] operator = "less than"                -> "$lt"
      [] operator = "greater than or equal to" -> "$gte"
      [] operator = "less than or equal to"    -> "$lte"

Compares(operator, a, b) ==
    CASE operator = "equals"                   -> a = b
      [] operator = "not equal"                -> a # b
      [] operator = "greater than"             -> a > b
      [] operator = "less than"                -> a < b
      [] operator = "greater than or equal to" -> a >= b
      [] operator = "less than or equal to"    -> a <= b

\* C14: the conjunction sent to the store has one clause per filter; the
\* clause of every plain filter with one of the operators equals, not equal,
\* greater than, less than, greater than or equal to, less than or equal to
\* is {field: {op: value}} with op = eq, ne, gt, lt, gte, lte and the value
\* of the filter as the store reads it for the field (a date for createdAt
\* and updatedAt); one such filter alone on age with the value 21 counts
\* exactly the documents whose age compares so to 21.
C14_PlainOperatorMapping ==
    Listing =>
        LET query == storeQueries[1].query
            n == Len(searchFilters)
            and == IF "and" \in DOMAIN query THEN query.and ELSE <<>>
        IN  /\ Len(and) = n
            /\ \E pi \in Bijections(n) :
                  \A i \in 1..n :
                      LET filter == searchFilters[i]
                      IN  IsPlain(filter) /\ filter.operator \in PlainOperators
                          => /\ and[pi[i]].field = filter.field
                             /\ and[pi[i]].op = NativeOperator(filter.operator)
                             /\ Cast(filter.field, and[pi[i]].value)
                                   = Cast(filter.field, filter.value)
            /\ /\ n = 1
               /\ searchFilters[1].field = "age"
               /\ searchFilters[1].operator \in PlainOperators
               /\ pc = "indexFind"
               => itemCount = Cardinality({ id \in DOMAIN store :
                                  Compares(searchFilters[1].operator, store[id].age, 21) })

\* A list request filtered by age greater than 21 and by a createdAt date
\* has counted the one document older than 21 and created after the date.
C14_Witness ==
    /\ invoked = "index"
    /\ pc = "indexFind"
    /\ searchFilters = << Filter("age", "greater than or equal to", "21"),
                          Filter("createdAt", "greater than", "2020-01-02") >>
    /\ DOMAIN store = {"id1", "id2"}
    /\ searchQuery.and = << Clause("createdAt", "$gt", "date:2020-01-02"),
                            Clause("age", "$gte", "21") >>
    /\ itemCount = 1

\* C15: a list request with a filter whose operator is none of the recognized
\* strings is answered with a client error, and no query built from the
\* filter is sent to the store.
RecognizedOperators == PlainOperators \cup {"like", "true", "false"}

C15_UnrecognizedOperatorFails ==
    /\ invoked = "index"
    /\ \E i \in DOMAIN searchFilters : searchFilters[i].operator \notin RecognizedOperators
    => /\ storeQueries = <<>>
       /\ pc = "done" => /\ Len(responses) = 1
                         /\ responses[1].status \in 400..499

\* C16: the predicate sent to the store has, for every relationship filter
\* of the request, one membership clause on the owner path of that filter
\* whose identifiers are the ones the sub-query of that same filter returns,
\* and no other membership clause.
C16_RelationshipClausesPaired ==
    Listing =>
        LET query == storeQueries[1].query
            and == IF "and" \in DOMAIN query THEN query.and ELSE <<>>
            isIn(clause) == clause.op = "$in"
            membership == SelectSeq(and, isIn)
            rel == SelectSeq(searchFilters, IsRelationship)
            n == Len(rel)
        IN  /\ Len(membership) = n
            /\ \E pi \in Bijections(n) :
                  \A i \in 1..n :
                      /\ membership[pi[i]].field = Split(rel[i].field)[1]
                      /\ membership[pi[i]].value = RelatedFind(RelationshipQuery(rel[i]))

\* A list request with a filter on owner.name and one on editor.name, whose
\* sub-queries return different documents, has sent its query.
C16_Witness ==
    /\ Listing
    /\ searchFilters = << Filter("owner.name", "like", "jo"),
                          Filter("editor.name", "equals", "Al") >>
    /\ storeQueries[1].query.and = << Clause("owner", "$in", <<"o1", "o2">>),
                                      Clause("editor", "$in", <<"o3">>) >>

\* C17: no query is sent to the parent collection while a relationship
\* sub-query of the request is pending or after one has failed; when one has
\* failed the request has ended with the error handed to next and nothing sent.
C17_JoinBeforeParentQuery ==
    invoked = "index" =>
        /\ storeQueries # <<>> =>
              \A i \in DOMAIN relationshipPromises :
                  relationshipPromises[i].state = "fulfilled"
        /\ (\E i \in DOMAIN relationshipPromises : relationshipPromises[i].state = "rejected")
           => /\ storeQueries = <<>>
              /\ pc = "done"
              /\ nextErrors = <<"MongoError">>
              /\ responses = <<>>

\* Two sub-queries were issued, both have returned, and the count and the
\* fetch have gone out after them.
C17_Witness ==
    /\ invoked = "index"
    /\ Len(relationshipPromises) = 2
    /\ \A i \in DOMAIN relationshipPromises : relationshipPromises[i].state = "fulfilled"
    /\ Len(storeQueries) = 2
    /\ pc = "indexFind"

\* C18: an update of an identifier no document has ends with a 404 response,
\* saves nothing and produces no further response or error; an update of an
\* existing document, once saved, has merged the body fields that are not
\* forbidden onto it, has left _id as it was and has returned the entity.
C18_UpdateMissingOrMerged ==
    invoked = "update" /\ pc = "done" =>
        IF reqId \notin DOMAIN store
        THEN /\ responses = << EndResponse(404) >>
             /\ nextErrors = <<>>
             /\ store \in InitStores
        ELSE nextErrors = <<>> =>
                /\ Len(responses) = 1
                /\ responses[1].status = 200
                /\ responses[1].body._id = reqId
                /\ store[reqId]._id = reqId
                /\ store[reqId].salt = InitDoc(reqId).salt
                /\ "name" \in DOMAIN reqBody => store[reqId].name = reqBody.name

\* C19: a get-one of an identifier no document has ends with a 404 response
\* and nothing else: no 200 response, no enrichment, and nothing handed to
\* next, whether or not the model has enrichment functions.
C19_ShowMissingEndsWith404 ==
    invoked = "show" /\ reqId \notin DOMAIN store =>
        /\ pc # "showEach"
        /\ pc = "done" => /\ responses = << EndResponse(404) >>
                          /\ nextErrors = <<>>

\* C20: when findById finds no document the delete answers 404 and ends with
\* nothing removed and no removal issued; when it finds one the removal is
\* issued, and when the removal returns the response is 204 and, unless the
\* store failed the removal, the document is gone.
C20_DestroyExistingOrMissing ==
    [][ invoked = "destroy" =>
          /\ pc = "destroyFindById" /\ reqId \notin DOMAIN store
             => /\ pc' = "done"
                /\ responses' = << EndResponse(404) >>
                /\ store' = store
          /\ pc = "destroyFindById" /\ reqId \in DOMAIN store
             => /\ pc' = "destroyRemove"
                /\ responses' = <<>>
                /\ store' = store
          /\ pc = "destroyRemove"
             => /\ reqId \in DOMAIN store
                /\ pc' = "done"
                /\ responses' = << EndResponse(204) >>
                /\ nextErrors' = nextErrors => DOMAIN store' = (DOMAIN store) \ {reqId}
          /\ pc = "done" => UNCHANGED <<responses, store>> ]_vars

\* The delete of an existing document has ended: the document is gone and
\* the one response is 204.
C20_Witness ==
    /\ invoked = "destroy"
    /\ pc = "done"
    /\ entity # Null
    /\ reqId \notin DOMAIN store
    /\ responses = << EndResponse(204) >>
    /\ nextErrors = <<>>

\* C21: with enrichment functions, the rows of a list response are the
\* fetched rows with, under every enrichment key k of every row r, function
\* k applied to the fetched value of row r under k, and every other field as
\* fetched, for any number of rows; and no response is sent before
\* Promise.each has gone through every enrichment promise.
C21_EnrichmentPlacement ==
    invoked = "index" =>
        /\ pc = "indexEach" => responses = <<>>
        /\ adminFunctions /\ responses # <<>> =>
              LET fetched == FindSorted(searchQuery, DefaultLimit)
                  keys == Range(AdminFunctionKeys)
                  items == IF shouldExport THEN responses[1].body.rows
                           ELSE responses[1].body.items
              IN  /\ adminIdx = Len(adminPromises)
                  /\ Len(adminPromises) = Len(AdminFunctionKeys) * Len(fetched)
                  /\ Len(items) = Len(fetched)
                  /\ \A r \in 1..Len(fetched) :
                        /\ DOMAIN items[r] = (DOMAIN fetched[r]) \cup keys
                        /\ \A f \in DOMAIN items[r] :
                              items[r][f] = IF f \in keys
                                            THEN f \o "(" \o Get(fetched[r], f) \o ")"
                                            ELSE fetched[r][f]

\* A list of two rows with different owners was enriched under both keys
\* and answered.
C21_Witness ==
    /\ invoked = "index"
    /\ pc = "done"
    /\ adminFunctions
    /\ ~shouldExport
    /\ Len(responses) = 1
    /\ Len(responses[1].body.items) = 2
    /\ responses[1].body.items[1].owner = "owner(o2)"
    /\ responses[1].body.items[2].owner = "owner(o1)"
    /\ responses[1].body.items[1].name = "name(n)"
    /\ adminIdx = 4

\* C22: a list request sends at most one response; once it has run to its
\* end without an error, it has sent exactly one: with export the CSV
\* download with Content-Type text/csv and the schema fields in their order
\* as headers, without export the envelope {itemCount, items}.
C22_ListResponseShape ==
    invoked = "index" =>
        /\ Len(responses) <= 1
        /\ pc = "done" /\ nextErrors = <<>> =>
              /\ Len(responses) = 1
              /\ responses[1].status = 200
              /\ IF shouldExport
                 THEN /\ responses[1].kind = "csv"
                      /\ responses[1].contentType = "text/csv"
                      /\ responses[1].body.headers = SchemaHeaders
                 ELSE /\ responses[1].kind = "json"
                      /\ DOMAIN responses[1].body = {"itemCount", "items"}

\* A list request with export has ended: its one response is the CSV
\* download of the documents of the collection.
C22_Witness ==
    /\ invoked = "index"
    /\ pc = "done"
    /\ shouldExport
    /\ Len(responses) = 1
    /\ responses[1].kind = "csv"
    /\ Len(responses[1].body.rows) = 2

\* The tables C23 speaks of: no cell holds a delimiter of the format.
Delimiters == {",", "\n", "\r", Quote}
WithoutDelimiters(table) ==
    \A i \in 1..Len(table.rows) : \A x \in 1..Len(table.rows[i]) :
        \A k \in 1..Len(table.rows[i][x].chars) :
            table.rows[i][x].chars[k] \notin Delimiters
Decoded(table) ==
    << [x \in 1..Len(table.headers) |-> Value(table.headers[x])] >>
    \o table.rows

\* C23: for every header list and every rectangular table of scalar cells
\* without embedded delimiters (empty cells, cells with a colon or a single
\* quote included), csvToArray(convertToCsv(rows, headers)) is the header row
\* followed by exactly the original rows with the original cell values, and
\* no additional row.
C23_CodecRoundTrip ==
    (pc \in {"done", "hung"} /\ csvTable # Null /\ WithoutDelimiters(csvTable))
        => /\ ~arrData.hangs
           /\ arrData.rows = Decoded(csvTable)

\* The two requests of SpecTwoImports, each with what it keeps to itself.
Own == Request(pc, responses, responseArray, rowObj, rowState, finishedRows,
               erroredRows)
BothRequests == {Own, peer}
SettledRows(r) == { row \in DOMAIN r.rowState :
                      r.rowState[row] \in {"updated", "created", "rejected"} }
RejectedRows(r) == { row \in DOMAIN r.rowState : r.rowState[row] = "rejected" }
CountsOwnRows(r) ==
    /\ r.finishedRows = Cardinality(SettledRows(r))
    /\ DOMAIN r.erroredRows = RejectedRows(r)

\* C24: with the store callbacks of two imports interleaved, the finished-row
\* counter and the errored-row map of each request follow that request's own
\* rows only, and a request is answered only when its own rows have all
\* settled.
C24_RequestIsolation ==
    peer # Null =>
        \A r \in BothRequests :
            /\ CountsOwnRows(r)
            /\ r.responses # <<>> => SettledRows(r) = DOMAIN r.rowState

\* C25: an import request calls res.status(...).end() at most once, whatever
\* the order in which the callbacks of its rows run: after a header error, a
\* parse error, a fetch error or the completion no further response is sent.
C25_ImportAnswersAtMostOnce ==
    invoked = "importFromCsv" => Len(responses) <= 1

\* C26: an import whose file fetch succeeded is answered in the end, given
\* that every store operation settles; a file of the header row alone
\* included.
C26_ImportIsAnswered ==
    (invoked = "importFromCsv" /\ pc = "rows") ~> (responses # <<>>)

\* C27: a bulk delete whose find and removals have all succeeded has been
\* answered with exactly one 204 when it ends, whether it matched no
\* document, one, or more than one.
C27_BulkDeleteAnswersOnce ==
    (invoked = "destroyMultiple" /\ pc = "done" /\ nextErrors = <<>>
        /\ \A j \in DOMAIN promiseArray : promiseArray[j].state = "fulfilled")
        => responses = << EndResponse(204) >>

\* C28: every data row of an import calls exactly one of its two callbacks,
\* once: finishedRows is the number of rows that have settled and never
\* exceeds the number of data rows, the keys of erroredRows are indices of
\* data rows, namely of those rejected, and there are no more errored rows
\* than finished ones.
C28_ImportCounters ==
    (invoked = "importFromCsv" /\ pc = "rows") =>
        /\ finishedRows <= Len(responseArray) - 1
        /\ finishedRows = Cardinality({ row \in DataRows : Settled(row) })
        /\ DOMAIN erroredRows \subseteq DataRows
        /\ DOMAIN erroredRows = { row \in DataRows : rowState[row] = "rejected" }
        /\ Cardinality(DOMAIN erroredRows) <= finishedRows
C28_Witness ==
    /\ invoked = "importFromCsv"
    /\ pc = "rows"
    /\ Len(responseArray) = 3
    /\ finishedRows = 2
    /\ DOMAIN erroredRows = {2}

\* C29: the itemCount of a list response is the number of documents that
\* match the predicate in the store state the items were fetched from, also
\* when other requests create or delete documents meanwhile: with fewer
\* matching documents than the page holds, the items are as many as itemCount
\* says.
C29_CountAgreesWithFetch ==
    \A i \in 1..Len(responses) :
        (invoked = "index" /\ responses[i].kind = "json"
            /\ Len(responses[i].body.items) < DefaultLimit)
            => responses[i].body.itemCount = Len(responses[i].body.items)

\* C30: the single-document delete answers 204 only when the removal
\* succeeded: when the store failed to remove the document, which is still
\* there, no 204 has been sent and the error has gone to next.
C30_NoContentOnlyAfterRemoval ==
    (invoked = "destroy" /\ pc = "done" /\ entity # Null /\ reqId \in DOMAIN store)
        => /\ \A i \in 1..Len(responses) : responses[i].status # 204
           /\ nextErrors # <<>>

====
